---- MODULE Spec2Model ----
(***************************************************************************)
(* A model of processing/plot.py: the statistics aggregation and plotting  *)
(* pipeline of ESPA.  Strings are sequences of one-character strings, so   *)
(* that slicing, splitting, formatting and sorting are computed the way    *)
(* the Python code computes them.  A call that raises is a result whose    *)
(* exc field names the exception.                                          *)
(***************************************************************************)
EXTENDS Integers, Sequences, FiniteSets, TLC

VARIABLES
    call,                \* the function called and its arguments    
    ret,                 \* its result, or Pending before the call
    fs,                  \* the *.stats files present in the work directory
    range_order,         \* iteration order of the BAND_TYPE_DATA_RANGES dict
    pc,                  \* position of process_stats / process_band_type
    band,                \* index of the process_band_type call in process_stats
    pair,                \* index of the (search_string, sensor_name) pair
    sensor_count,        \* local of process_band_type
    single_sensor_name,  \* local of process_band_type
    multi_sensor_files,  \* local of process_band_type
    stats,               \* local of generate_plots: the parsed stat files
    plot_idx,            \* which of the five generate_plot calls is next
    csv_writes,          \* every CSV file written, in order
    plots,               \* every image saved by generate_plot, in order
    unlinked,            \* every os.unlink done, as <<band, file>>
    error,               \* the exception that aborted the run, or ""
    figures,             \* the number of open matplotlib figures
    proc                 \* the state of process: its step, the keep option,
                         \* the work directory, the current directory

vars == <<call, ret, fs, range_order, pc, band, pair, sensor_count,
          single_sensor_name, multi_sensor_files, stats, plot_idx,
          csv_writes, plots, unlinked, error, figures, proc>>

\* The variables of the process_stats run, but for the open figures.
runData == <<fs, range_order, pc, band, pair, sensor_count,
             single_sensor_name, multi_sensor_files, stats, plot_idx,
             csv_writes, plots, unlinked, error>>

\* The variables of the process_stats run.
runFields == <<runData, figures>>

runVars == <<runFields, proc>>

----------------------------------------------------------------------------
(* Results of calls. *)

Ok(v) == [exc |-> "", val |-> v]

Raise(e) == [exc |-> e, val |-> <<>>]

NoneVal == <<>>

Pending == [exc |-> "pending", val |-> <<>>]

----------------------------------------------------------------------------
(* Python str operations on sequences of characters. *)

\* The printable ASCII characters in code order, from 32 (space) to 126; the
\* double quote and the backtick, which no string here holds, are spelled out.
AsciiChars ==
    <<" ", "!", "dquote", "#", "$", "%", "&", "'", "(", ")", "*", "+", ",", "-",
      ".", "/", "0", "1", "2", "3", "4", "5", "6", "7", "8", "9", ":", ";",
      "<", "=", ">", "?", "@", "A", "B", "C", "D", "E", "F", "G", "H", "I",
      "J", "K", "L", "M", "N", "O", "P", "Q", "R", "S", "T", "U", "V", "W",
      "X", "Y", "Z", "[", "\\", "]", "^", "_", "backtick", "a", "b", "c", "d", "e",
      "f", "g", "h", "i", "j", "k", "l", "m", "n", "o", "p", "q", "r", "s",
      "t", "u", "v", "w", "x", "y", "z", "{", "|", "}", "~">>

OrdTable ==
    [c \in {AsciiChars[i] : i \in 1..Len(AsciiChars)} |->
        31 + (CHOOSE i \in 1..Len(AsciiChars) : AsciiChars[i] = c)]

\* The vertical tab, character 11 (the literal holds the character itself).
VerticalTab == ""

Ord(c) ==
    CASE c = "\t" -> 9
      [] c = "\n" -> 10
      [] c = VerticalTab -> 11
      [] c = "\f" -> 12
      [] c = "\r" -> 13
      [] OTHER -> OrdTable[c]

Chr(n) == AsciiChars[n - 31]

\* The characters str.strip(), int() and float() take for whitespace.
IsSpace(c) == c \in {" ", "\t", "\n", VerticalTab, "\f", "\r"}

IsDigit(c) == c \in {"0", "1", "2", "3", "4", "5", "6", "7", "8", "9"}

IsUpper(c) == ~IsSpace(c) /\ Ord(c) >= 65 /\ Ord(c) <= 90

\* str.lower()
Lower(s) == [i \in 1..Len(s) |-> IF IsUpper(s[i]) THEN Chr(Ord(s[i]) + 32) ELSE s[i]]

\* s[a:b] for 0 <= a, 0 <= b: Python clamps both ends to the length.
Slice(s, a, b) ==
    LET lo == IF a > Len(s) THEN Len(s) ELSE a
        hi == IF b > Len(s) THEN Len(s) ELSE b
    IN  IF hi <= lo THEN <<>> ELSE SubSeq(s, lo + 1, hi)

\* str.startswith(p)
StartsWith(s, p) == Len(p) <= Len(s) /\ SubSeq(s, 1, Len(p)) = p

\* str.find(p, from): the least 0-based index >= from where p occurs, or -1.
Find(s, p, from) ==
    LET hits == {i \in from..(Len(s) - Len(p)) : SubSeq(s, i + 1, i + Len(p)) = p}
    IN  IF hits = {} THEN -1 ELSE CHOOSE i \in hits : \A j \in hits : i <= j

\* p in s
Contains(s, p) == Find(s, p, 0) >= 0

RECURSIVE StripLeft(_)
StripLeft(s) ==
    IF s # <<>> /\ IsSpace(Head(s)) THEN StripLeft(Tail(s)) ELSE s

RECURSIVE StripRight(_)
StripRight(s) ==
    IF s # <<>> /\ IsSpace(s[Len(s)]) THEN StripRight(SubSeq(s, 1, Len(s) - 1)) ELSE s

\* str.strip()
Strip(s) == StripRight(StripLeft(s))

\* str.split(sep) for a non-empty separator: every occurrence splits.
RECURSIVE Split(_, _)
Split(s, sep) ==
    LET i == Find(s, sep, 0)
    IN  IF i < 0 THEN <<s>>
        ELSE <<SubSeq(s, 1, i)>> \o Split(SubSeq(s, i + Len(sep) + 1, Len(s)), sep)

\* str.replace(old, new) for a non-empty old: left to right, non-overlapping.
RECURSIVE Replace(_, _, _)
Replace(s, old, new) ==
    LET i == Find(s, old, 0)
    IN  IF i < 0 THEN s
        ELSE SubSeq(s, 1, i) \o new
             \o Replace(SubSeq(s, i + Len(old) + 1, Len(s)), old, new)

\* ''.join / ' '.join
RECURSIVE Join(_, _)
Join(sep, parts) ==
    IF parts = <<>> THEN <<>>
    ELSE IF Len(parts) = 1 THEN parts[1]
    ELSE parts[1] \o sep \o Join(sep, Tail(parts))

\* Comparison of two str values: by character code, a proper prefix first.
RECURSIVE StrLess(_, _)
StrLess(a, b) ==
    IF b = <<>> THEN FALSE
    ELSE IF a = <<>> THEN TRUE
    ELSE IF Head(a) = Head(b) THEN StrLess(Tail(a), Tail(b))
    ELSE Ord(Head(a)) < Ord(Head(b))

StrLeq(a, b) == a = b \/ StrLess(a, b)

DigitValue(c) == Ord(c) - 48

RECURSIVE DigitsValue(_, _)
DigitsValue(s, acc) ==
    IF s = <<>> THEN acc ELSE DigitsValue(Tail(s), 10 * acc + DigitValue(Head(s)))

\* int(t) for a str t without surrounding whitespace: one sign, whitespace
\* (Python 2 accepts it after the sign), then digits.
int_stripped(t) ==
    LET signed == t # <<>> /\ Head(t) \in {"+", "-"}
        digits == IF t # <<>> /\ Head(t) \in {"+", "-"} THEN StripLeft(Tail(t)) ELSE t
    IN  IF digits = <<>> \/ \E i \in 1..Len(digits) : ~IsDigit(digits[i])
        THEN Raise("ValueError")
        ELSE IF signed /\ Head(t) = "-"
             THEN Ok(0 - DigitsValue(digits, 0))
             ELSE Ok(DigitsValue(digits, 0))

\* int(s): surrounding whitespace is accepted.
int(s) == int_stripped(Strip(s))

RECURSIVE NatToStr(_)
NatToStr(n) ==
    IF n < 10 THEN <<Chr(48 + n)>> ELSE NatToStr(n \div 10) \o <<Chr(48 + (n % 10))>>

RECURSIVE ZeroPad(_, _)
ZeroPad(s, width) == IF Len(s) >= width THEN s ELSE ZeroPad(<<"0">> \o s, width)

\* '%0<width>d' % n: the sign counts towards the width.
FormatD(n, width) ==
    IF n < 0 THEN <<"-">> \o ZeroPad(NatToStr(0 - n), width - 1)
    ELSE ZeroPad(NatToStr(n), width)

----------------------------------------------------------------------------
(* The calendar and datetime modules, as far as plot.py uses them. *)

mdays == <<31, 28, 31, 30, 31, 30, 31, 31, 30, 31, 30, 31>>

isleap_century_blind(year) == year % 4 = 0

\* calendar.isleap
isleap(year) == year % 4 = 0 /\ (year % 100 # 0 \/ year % 400 = 0)

\* calendar.monthrange(year, month)[1]; monthrange builds
\* datetime.date(year, month, 1), which accepts the years 1..9999 only.
monthrange_days(year, month) ==
    IF year < 1 \/ year > 9999 THEN Raise("ValueError")
    ELSE Ok(mdays[month] + (IF month = 2 /\ isleap(year) THEN 1 ELSE 0))

\* datetime.date(year, month, day).toordinal(): days since 0001-01-01, plus 1.
RECURSIVE days_before_month(_, _)
days_before_month(year, month) ==
    IF month = 1 THEN 0
    ELSE days_before_month(year, month - 1) + monthrange_days(year, month - 1).val

days_before_year(year) ==
    LET y == year - 1 IN y * 365 + (y \div 4) - (y \div 100) + (y \div 400)

\* datetime.date(year, month, day), as its ordinal.
date(year, month, day) ==
    IF year < 1 \/ year > 9999 \/ month < 1 \/ month > 12 THEN Raise("ValueError")
    ELSE IF day < 1 \/ day > monthrange_days(year, month).val THEN Raise("ValueError")
    ELSE Ok(days_before_year(year) + days_before_month(year, month) + day)

----------------------------------------------------------------------------
(* get_mdom_from_ydoy and get_ymds_from_filename. *)

RECURSIVE mdom_loop(_, _, _)
mdom_loop(year, month, day_of_month) ==
    IF month < 13
    THEN LET month_days == monthrange_days(year, month)
         IN  IF month_days.exc # "" THEN Raise(month_days.exc)
             ELSE IF day_of_month <= month_days.val
                  THEN Ok(<<month, day_of_month>>)
                  ELSE mdom_loop(year, month + 1, day_of_month - month_days.val)
    ELSE Ok(NoneVal)

get_mdom_from_ydoy(year, day_of_year) == mdom_loop(year, 1, day_of_year)

\* (month, day_of_month) = get_mdom_from_ydoy(year, day_of_year): a result
\* of None cannot be unpacked.
unpack_mdom(year, mdom, sensor) ==
    IF mdom.exc # "" THEN Raise(mdom.exc)
    ELSE IF mdom.val = NoneVal THEN Raise("TypeError")
    ELSE Ok(<<year, mdom.val[1], mdom.val[2], sensor>>)

\* The statements after the two int() calls of a branch.
decode_ints(year, day_of_year, sensor) ==
    IF year.exc # "" THEN Raise(year.exc)
    ELSE IF day_of_year.exc # "" THEN Raise(day_of_year.exc)
    ELSE unpack_mdom(year.val, get_mdom_from_ydoy(year.val, day_of_year.val), sensor)

\* The statements shared by the five branches: year = int(...),
\* day_of_year = int(...), the conversion and the unpacking of its result.
decode(year_str, doy_str, sensor) == decode_ints(int(year_str), int(doy_str), sensor)

decode_modis(filename, sensor) ==
    LET elements == Split(filename, <<".">>)
    IN  IF Len(elements) < 2 THEN Raise("IndexError")
        ELSE decode(Slice(elements[2], 1, 5), Slice(elements[2], 5, 8), sensor)

decode_landsat_shifted(filename, sensor) ==
    decode(Slice(filename, 8, 12), Slice(filename, 12, 15), sensor)

decode_landsat(filename, sensor) ==
    decode(Slice(filename, 9, 13), Slice(filename, 13, 16), sensor)

get_ymds_from_filename_le7_first(filename) ==
    IF StartsWith(filename, <<"M","O","D">>) THEN decode_modis(filename, "Terra")
    ELSE IF StartsWith(filename, <<"M","Y","D">>) THEN decode_modis(filename, "Aqua")
    ELSE IF Contains(filename, <<"L","E","7">>) THEN decode_landsat(filename, "LE7")
    ELSE IF Contains(filename, <<"L","T","4">>) THEN decode_landsat(filename, "LT4")
    ELSE IF Contains(filename, <<"L","T","5">>) THEN decode_landsat(filename, "LT5")
    ELSE Ok(<<0, 0, 0, "unk">>)

get_ymds_from_filename(filename) ==
    IF StartsWith(filename, <<"M","O","D">>) THEN decode_modis(filename, "Terra")
    ELSE IF StartsWith(filename, <<"M","Y","D">>) THEN decode_modis(filename, "Aqua")
    ELSE IF Contains(filename, <<"L","T","4">>) THEN decode_landsat(filename, "LT4")
    ELSE IF Contains(filename, <<"L","T","5">>) THEN decode_landsat(filename, "LT5")
    ELSE IF Contains(filename, <<"L","E","7">>) THEN decode_landsat(filename, "LE7")
    ELSE Ok(<<0, 0, 0, "unk">>)

----------------------------------------------------------------------------
(* The configuration of plot.py. *)

\* The keys of SENSOR_COLORS.
SENSOR_COLORS_KEYS == {"Terra", "Aqua", "LT4", "LT5", "LE7"}

\* The keys of BAND_TYPE_DATA_RANGES, in the order the source writes them.
BAND_TYPE_DATA_RANGES_KEYS ==
    <<<<"S","R">>, <<"T","O","A">>, <<"N","D","V","I">>, <<"E","V","I">>, <<"S","A","V","I">>, <<"M","S","A","V","I">>, <<"N","B","R">>, <<"N","B","R","2">>,
      <<"N","D","M","I">>, <<"L","S","T">>, <<"E","m","i","s">>>>

L4_SATELLITE_NAME == <<"L","a","n","d","s","a","t"," ","4">>

L5_SATELLITE_NAME == <<"L","a","n","d","s","a","t"," ","5">>

L7_SATELLITE_NAME == <<"L","a","n","d","s","a","t"," ","7">>

TERRA_SATELLITE_NAME == <<"T","e","r","r","a">>

AQUA_SATELLITE_NAME == <<"A","q","u","a">>

\* A sensor_info list of the three Landsat sensors, then Terra and Aqua.
LandsatModisInfo(landsat_suffix, modis_suffix) ==
    << <<<<"L","T","4","*">> \o landsat_suffix, L4_SATELLITE_NAME>>,
       <<<<"L","T","5","*">> \o landsat_suffix, L5_SATELLITE_NAME>>,
       <<<<"L","E","7","*">> \o landsat_suffix, L7_SATELLITE_NAME>>,
       <<<<"M","O","D","*">> \o modis_suffix, TERRA_SATELLITE_NAME>>,
       <<<<"M","Y","D","*">> \o modis_suffix, AQUA_SATELLITE_NAME>> >>

\* A sensor_info list of the three Landsat sensors.
LandsatInfo(landsat_suffix) ==
    << <<<<"L","T","4","*">> \o landsat_suffix, L4_SATELLITE_NAME>>,
       <<<<"L","T","5","*">> \o landsat_suffix, L5_SATELLITE_NAME>>,
       <<<<"L","E","7","*">> \o landsat_suffix, L7_SATELLITE_NAME>> >>

\* A sensor_info list of Terra and Aqua.
ModisInfo(modis_suffix) ==
    << <<<<"M","O","D","*">> \o modis_suffix, TERRA_SATELLITE_NAME>>,
       <<<<"M","Y","D","*">> \o modis_suffix, AQUA_SATELLITE_NAME>> >>

\* The *_SENSOR_INFO lists, by name.
SENSOR_INFO ==
    [SR_SWIR_MODIS_B5_SENSOR_INFO |->
         << <<<<"M","O","D","*","s","u","r","_","r","e","f","l","*","b","0","5",".","s","t","a","t","s">>, TERRA_SATELLITE_NAME>>,
            <<<<"M","Y","D","*","s","u","r","_","r","e","f","l","*","b","0","5",".","s","t","a","t","s">>, AQUA_SATELLITE_NAME>> >>,
     SR_SWIR1_SENSOR_INFO |-> LandsatModisInfo(<<"_","s","r","_","b","a","n","d","5",".","s","t","a","t","s">>, <<"s","u","r","_","r","e","f","l","*","6",".","s","t","a","t","s">>),
     SR_SWIR2_SENSOR_INFO |-> LandsatModisInfo(<<"_","s","r","_","b","a","n","d","7",".","s","t","a","t","s">>, <<"s","u","r","_","r","e","f","l","*","7",".","s","t","a","t","s">>),
     SR_BLUE_SENSOR_INFO |-> LandsatModisInfo(<<"_","s","r","_","b","a","n","d","1",".","s","t","a","t","s">>, <<"s","u","r","_","r","e","f","l","*","3",".","s","t","a","t","s">>),
     SR_GREEN_SENSOR_INFO |-> LandsatModisInfo(<<"_","s","r","_","b","a","n","d","2",".","s","t","a","t","s">>, <<"s","u","r","_","r","e","f","l","*","4",".","s","t","a","t","s">>),
     SR_RED_SENSOR_INFO |-> LandsatModisInfo(<<"_","s","r","_","b","a","n","d","3",".","s","t","a","t","s">>, <<"s","u","r","_","r","e","f","l","*","1",".","s","t","a","t","s">>),
     SR_NIR_SENSOR_INFO |-> LandsatModisInfo(<<"_","s","r","_","b","a","n","d","4",".","s","t","a","t","s">>, <<"s","u","r","_","r","e","f","l","*","2",".","s","t","a","t","s">>),
     TOA_THERMAL_SENSOR_INFO |-> LandsatInfo(<<"_","t","o","a","_","b","a","n","d","6",".","s","t","a","t","s">>),
     TOA_SWIR1_SENSOR_INFO |-> LandsatInfo(<<"_","t","o","a","_","b","a","n","d","5",".","s","t","a","t","s">>),
     TOA_SWIR2_SENSOR_INFO |-> LandsatInfo(<<"_","t","o","a","_","b","a","n","d","7",".","s","t","a","t","s">>),
     TOA_BLUE_SENSOR_INFO |-> LandsatInfo(<<"_","t","o","a","_","b","a","n","d","1",".","s","t","a","t","s">>),
     TOA_GREEN_SENSOR_INFO |-> LandsatInfo(<<"_","t","o","a","_","b","a","n","d","2",".","s","t","a","t","s">>),
     TOA_RED_SENSOR_INFO |-> LandsatInfo(<<"_","t","o","a","_","b","a","n","d","3",".","s","t","a","t","s">>),
     TOA_NIR_SENSOR_INFO |-> LandsatInfo(<<"_","t","o","a","_","b","a","n","d","4",".","s","t","a","t","s">>),
     EMIS_20_SENSOR_INFO |-> ModisInfo(<<"E","m","i","s","_","2","0",".","s","t","a","t","s">>),
     EMIS_22_SENSOR_INFO |-> ModisInfo(<<"E","m","i","s","_","2","2",".","s","t","a","t","s">>),
     EMIS_23_SENSOR_INFO |-> ModisInfo(<<"E","m","i","s","_","2","3",".","s","t","a","t","s">>),
     EMIS_29_SENSOR_INFO |-> ModisInfo(<<"E","m","i","s","_","2","9",".","s","t","a","t","s">>),
     EMIS_31_SENSOR_INFO |-> ModisInfo(<<"E","m","i","s","_","3","1",".","s","t","a","t","s">>),
     EMIS_32_SENSOR_INFO |-> ModisInfo(<<"E","m","i","s","_","3","2",".","s","t","a","t","s">>),
     LST_DAY_SENSOR_INFO |-> ModisInfo(<<"L","S","T","_","D","a","y","_","*",".","s","t","a","t","s">>),
     LST_NIGHT_SENSOR_INFO |-> ModisInfo(<<"L","S","T","_","N","i","g","h","t","_","*",".","s","t","a","t","s">>),
     NDVI_SENSOR_INFO |-> LandsatModisInfo(<<"_","s","r","_","n","d","v","i",".","s","t","a","t","s">>, <<"_","N","D","V","I",".","s","t","a","t","s">>),
     EVI_SENSOR_INFO |-> LandsatModisInfo(<<"_","s","r","_","e","v","i",".","s","t","a","t","s">>, <<"_","E","V","I",".","s","t","a","t","s">>),
     SAVI_SENSOR_INFO |-> LandsatInfo(<<"_","s","r","_","s","a","v","i",".","s","t","a","t","s">>),
     MSAVI_SENSOR_INFO |-> LandsatInfo(<<"_","s","r","_","m","s","a","v","i",".","s","t","a","t","s">>),
     NBR_SENSOR_INFO |-> LandsatInfo(<<"_","s","r","_","n","b","r",".","s","t","a","t","s">>),
     NBR2_SENSOR_INFO |-> LandsatInfo(<<"_","s","r","_","n","b","r","2",".","s","t","a","t","s">>),
     NDMI_SENSOR_INFO |-> LandsatInfo(<<"_","s","r","_","n","d","m","i",".","s","t","a","t","s">>)]

\* The process_band_type calls of process_stats, in order:
\* <<sensor_info, band_type>>.
process_stats_calls ==
    << <<SENSOR_INFO.SR_BLUE_SENSOR_INFO, <<"S","R"," ","B","l","u","e">>>>,
       <<SENSOR_INFO.SR_GREEN_SENSOR_INFO, <<"S","R"," ","G","r","e","e","n">>>>,
       <<SENSOR_INFO.SR_RED_SENSOR_INFO, <<"S","R"," ","R","e","d">>>>,
       <<SENSOR_INFO.SR_NIR_SENSOR_INFO, <<"S","R"," ","N","I","R">>>>,
       <<SENSOR_INFO.SR_SWIR1_SENSOR_INFO, <<"S","R"," ","S","W","I","R","1">>>>,
       <<SENSOR_INFO.SR_SWIR2_SENSOR_INFO, <<"S","R"," ","S","W","I","R","2">>>>,
       <<SENSOR_INFO.SR_SWIR_MODIS_B5_SENSOR_INFO, <<"S","R"," ","S","W","I","R"," ","B","5">>>>,
       <<SENSOR_INFO.TOA_THERMAL_SENSOR_INFO, <<"S","R"," ","T","h","e","r","m","a","l">>>>,
       <<SENSOR_INFO.TOA_BLUE_SENSOR_INFO, <<"T","O","A"," ","B","l","u","e">>>>,
       <<SENSOR_INFO.TOA_GREEN_SENSOR_INFO, <<"T","O","A"," ","G","r","e","e","n">>>>,
       <<SENSOR_INFO.TOA_RED_SENSOR_INFO, <<"T","O","A"," ","R","e","d">>>>,
       <<SENSOR_INFO.TOA_NIR_SENSOR_INFO, <<"T","O","A"," ","N","I","R">>>>,
       <<SENSOR_INFO.TOA_SWIR1_SENSOR_INFO, <<"T","O","A"," ","S","W","I","R","1">>>>,
       <<SENSOR_INFO.TOA_SWIR2_SENSOR_INFO, <<"T","O","A"," ","S","W","I","R","2">>>>,
       <<SENSOR_INFO.EMIS_20_SENSOR_INFO, <<"E","m","i","s"," ","B","a","n","d"," ","2","0">>>>,
       <<SENSOR_INFO.EMIS_22_SENSOR_INFO, <<"E","m","i","s"," ","B","a","n","d"," ","2","2">>>>,
       <<SENSOR_INFO.EMIS_23_SENSOR_INFO, <<"E","m","i","s"," ","B","a","n","d"," ","2","3">>>>,
       <<SENSOR_INFO.EMIS_29_SENSOR_INFO, <<"E","m","i","s"," ","B","a","n","d"," ","2","9">>>>,
       <<SENSOR_INFO.EMIS_31_SENSOR_INFO, <<"E","m","i","s"," ","B","a","n","d"," ","3","1">>>>,
       <<SENSOR_INFO.EMIS_32_SENSOR_INFO, <<"E","m","i","s"," ","B","a","n","d"," ","3","2">>>>,
       <<SENSOR_INFO.LST_DAY_SENSOR_INFO, <<"L","S","T"," ","D","a","y">>>>,
       <<SENSOR_INFO.LST_NIGHT_SENSOR_INFO, <<"L","S","T"," ","N","i","g","h","t">>>>,
       <<SENSOR_INFO.NDVI_SENSOR_INFO, <<"N","D","V","I">>>>,
       <<SENSOR_INFO.EVI_SENSOR_INFO, <<"E","V","I">>>>,
       <<SENSOR_INFO.SAVI_SENSOR_INFO, <<"S","A","V","I">>>>,
       <<SENSOR_INFO.MSAVI_SENSOR_INFO, <<"M","S","A","V","I">>>>,
       <<SENSOR_INFO.NBR_SENSOR_INFO, <<"N","B","R">>>>,
       <<SENSOR_INFO.NBR2_SENSOR_INFO, <<"N","B","R","2">>>>,
       <<SENSOR_INFO.NDMI_SENSOR_INFO, <<"N","D","M","I">>>> >>

----------------------------------------------------------------------------
(* The stat files the checks are run on.  Each has a name and a text;     *)
(* StatFileTruth states what the text and the name of each were made to    *)
(* say, and the files marked bad are the ones made to fail.                *)

NumFiles == 6

StatFileUniverse ==
    << [name |-> <<"L","T","5","0","2","9","0","3","0","2","0","1","6","0","3","3","_","s","r","_","b","a","n","d","1",".","s","t","a","t","s">>,
        text |-> <<"m","i","n","i","m","u","m","=","1","2">> \o <<"\n">> \o <<"m","a","x","i","m","u","m","=","3","4","0">> \o <<"\n">>
                 \o <<"m","e","a","n","=","1","0","0",".","5">> \o <<"\n">> \o <<"s","t","d","d","e","v","=","3",".","2","5">> \o <<"\n">>],
       [name |-> <<"L","T","5","0","2","9","0","3","0","2","0","1","5","0","6","0","_","s","r","_","b","a","n","d","1",".","s","t","a","t","s">>,
        text |-> <<"M","I","N","I","M","U","M","=","7"," ">> \o <<"\n">> \o <<"M","a","x","i","m","u","m","=","9","0","0","0">> \o <<"\n">>
                 \o <<" "," ","m","e","a","n","=","1","E","3">> \o <<"\n">> \o <<"s","t","d","d","e","v","=",".","5">>],
       [name |-> <<"L","E","7","0","2","9","0","3","0","2","0","1","6","0","6","0","_","s","r","_","b","a","n","d","1",".","s","t","a","t","s">>,
        text |-> <<"s","t","d","d","e","v","=","2","0">> \o <<"\n">> \o <<"m","e","a","n","=","5","5">> \o <<"\n">>
                 \o <<"m","a","x","i","m","u","m","=","8","0">> \o <<"\n">> \o <<"m","i","n","i","m","u","m","=","-","3">> \o <<"\n">>],
       [name |-> <<"L","T","5","0","2","9","0","3","0","2","0","1","6","0","3","3","_","s","r","_","n","b","r","2",".","s","t","a","t","s">>,
        text |-> <<"m","i","n","i","m","u","m","=","-","1","0","0","0">> \o <<"\n">> \o <<"m","a","x","i","m","u","m","=","1","0","0","0","0">> \o <<"\n">>
                 \o <<"m","e","a","n","=","2","5","0">> \o <<"\n">> \o <<"s","t","d","d","e","v","=","1","1">> \o <<"\n">>],
       [name |-> <<"L","E","7","0","2","9","0","3","0","2","0","1","6","0","6","0","_","s","r","_","b","a","n","d","2",".","s","t","a","t","s">>,
        text |-> <<"m","i","n","i","m","u","m","=","1">> \o <<"\n">> \o <<"m","a","x","i","m","u","m","=","2">> \o <<"\n">>
                 \o <<"m","e","a","n","=","n","/","a">> \o <<"\n">> \o <<"s","t","d","d","e","v","=","0">> \o <<"\n">>],
       [name |-> <<"L","T","5","0","2","9","0","3","0","2","0","1","6","0","3","3","_","s","r","_","b","a","n","d","3",".","s","t","a","t","s">>,
        text |-> <<"m","i","n","i","m","u","m","=","1">> \o <<"\n">> \o <<"m","a","x","i","m","u","m","=","2">> \o <<"\n">>
                 \o <<"m","e","a","n","=","1",".","5">> \o <<"\n">> \o <<"s","t","d","d","e","v","=","0",".","1">> \o <<"\n", "\n">>],
       [name |-> <<"M","O","D","0","9","A","1",".","A","2","0","1","6","0","3","3",".","h","1","0","v","0","4",".","s","u","r","_","r","e","f","l","_","b","0","3",".","s","t","a","t","s">>,
        text |-> <<"m","i","n","i","m","u","m","=","1">> \o <<"\n">> \o <<"m","a","x","i","m","u","m","=","2">> \o <<"\n">>
                 \o <<"m","e","a","n","=","1",".","5">> \o <<"\n">> \o <<"s","t","d","d","e","v","=","0",".","1">> \o <<"\n">>],
       [name |-> <<"L","T","4","0","2","9","0","3","0","1","9","8","9","3","6","5","_","t","o","a","_","b","a","n","d","6",".","s","t","a","t","s">>,
        text |-> <<"m","i","n","i","m","u","m","=","1","0","0">> \o <<"\n">> \o <<"m","a","x","i","m","u","m","=","2","0","0">> \o <<"\n">>
                 \o <<"m","e","a","n","=","1","5","0">> \o <<"\n">> \o <<"s","t","d","d","e","v","=","9">> \o <<"\n">>],
       [name |-> <<"s","c","e","n","e","_","s","r","_","b","a","n","d","1",".","s","t","a","t","s">>,
        text |-> <<"m","i","n","i","m","u","m","=","0">> \o <<"\n">> \o <<"m","a","x","i","m","u","m","=","1">> \o <<"\n">>
                 \o <<"m","e","a","n","=","0",".","5">> \o <<"\n">> \o <<"s","t","d","d","e","v","=","0",".","2","5">> \o <<"\n">>],
       [name |-> <<"L","T","5","0","2","9","0","3","0","2","0","1","6","0","3","4","_","s","r","_","b","a","n","d","1",".","s","t","a","t","s">>,
        text |-> <<"m","i","n","i","m","u","m","=","1">> \o <<"\n">> \o <<"m","a","x","i","m","u","m","=","2">> \o <<"\n">>
                 \o <<"m","e","a","n","=","1",".","5">> \o <<"\n">>],
       [name |-> <<"L","T","5","0","2","9","0","3","0","2","0","1","6","4","0","0","_","s","r","_","b","a","n","d","1",".","s","t","a","t","s">>,
        text |-> <<"m","i","n","i","m","u","m","=","1">> \o <<"\n">> \o <<"m","a","x","i","m","u","m","=","2">> \o <<"\n">>
                 \o <<"m","e","a","n","=","1",".","5">> \o <<"\n">> \o <<"s","t","d","d","e","v","=","0",".","1">> \o <<"\n">>] >>

StatFileTruth ==
    << [date |-> <<"2","0","1","6","-","0","2","-","0","2">>, sensor_name |-> <<"L","a","n","d","s","a","t"," ","5">>, band_type |-> <<"S","R"," ","B","l","u","e">>,
        csv |-> <<"l","a","n","d","s","a","t","_","5","_","s","r","_","b","l","u","e","_","s","t","a","t","s",".","c","s","v">>, bad |-> "",
        minimum |-> <<"1","2">>, maximum |-> <<"3","4","0">>, mean |-> <<"1","0","0",".","5">>, stddev |-> <<"3",".","2","5">>],
       [date |-> <<"2","0","1","5","-","0","3","-","0","1">>, sensor_name |-> <<"L","a","n","d","s","a","t"," ","5">>, band_type |-> <<"S","R"," ","B","l","u","e">>,
        csv |-> <<"l","a","n","d","s","a","t","_","5","_","s","r","_","b","l","u","e","_","s","t","a","t","s",".","c","s","v">>, bad |-> "",
        minimum |-> <<"7">>, maximum |-> <<"9","0","0","0">>, mean |-> <<"1","e","3">>, stddev |-> <<".","5">>],
       [date |-> <<"2","0","1","6","-","0","2","-","2","9">>, sensor_name |-> <<"L","a","n","d","s","a","t"," ","7">>, band_type |-> <<"S","R"," ","B","l","u","e">>,
        csv |-> <<"l","a","n","d","s","a","t","_","7","_","s","r","_","b","l","u","e","_","s","t","a","t","s",".","c","s","v">>, bad |-> "",
        minimum |-> <<"-","3">>, maximum |-> <<"8","0">>, mean |-> <<"5","5">>, stddev |-> <<"2","0">>],
       [date |-> <<"2","0","1","6","-","0","2","-","0","2">>, sensor_name |-> <<"L","a","n","d","s","a","t"," ","5">>, band_type |-> <<"N","B","R","2">>,
        csv |-> <<"l","a","n","d","s","a","t","_","5","_","n","b","r","2","_","s","t","a","t","s",".","c","s","v">>, bad |-> "",
        minimum |-> <<"-","1","0","0","0">>, maximum |-> <<"1","0","0","0","0">>, mean |-> <<"2","5","0">>, stddev |-> <<"1","1">>],
       [date |-> <<"2","0","1","6","-","0","2","-","2","9">>, sensor_name |-> <<"L","a","n","d","s","a","t"," ","7">>, band_type |-> <<"S","R"," ","G","r","e","e","n">>,
        csv |-> <<"l","a","n","d","s","a","t","_","7","_","s","r","_","g","r","e","e","n","_","s","t","a","t","s",".","c","s","v">>, bad |-> "plot",
        minimum |-> <<"1">>, maximum |-> <<"2">>, mean |-> <<"n","/","a">>, stddev |-> <<"0">>],
       [date |-> <<"2","0","1","6","-","0","2","-","0","2">>, sensor_name |-> <<"L","a","n","d","s","a","t"," ","5">>, band_type |-> <<"S","R"," ","R","e","d">>,
        csv |-> <<"l","a","n","d","s","a","t","_","5","_","s","r","_","r","e","d","_","s","t","a","t","s",".","c","s","v">>, bad |-> "read",
        minimum |-> <<"1">>, maximum |-> <<"2">>, mean |-> <<"1",".","5">>, stddev |-> <<"0",".","1">>],
       [date |-> <<"2","0","1","6","-","0","2","-","0","2">>, sensor_name |-> <<"T","e","r","r","a">>, band_type |-> <<"S","R"," ","B","l","u","e">>,
        csv |-> <<"t","e","r","r","a","_","s","r","_","b","l","u","e","_","s","t","a","t","s",".","c","s","v">>, bad |-> "",
        minimum |-> <<"1">>, maximum |-> <<"2">>, mean |-> <<"1",".","5">>, stddev |-> <<"0",".","1">>],
       [date |-> <<"1","9","8","9","-","1","2","-","3","1">>, sensor_name |-> <<"L","a","n","d","s","a","t"," ","4">>, band_type |-> <<"S","R"," ","T","h","e","r","m","a","l">>,
        csv |-> <<"l","a","n","d","s","a","t","_","4","_","s","r","_","t","h","e","r","m","a","l","_","s","t","a","t","s",".","c","s","v">>, bad |-> "",
        minimum |-> <<"1","0","0">>, maximum |-> <<"2","0","0">>, mean |-> <<"1","5","0">>, stddev |-> <<"9">>],
       [date |-> <<"0","0","0","0","-","0","0","-","0","0">>, sensor_name |-> <<>>, band_type |-> <<>>,
        csv |-> <<>>, bad |-> "",
        minimum |-> <<"0">>, maximum |-> <<"1">>, mean |-> <<"0",".","5">>, stddev |-> <<"0",".","2","5">>],
       [date |-> <<"2","0","1","6","-","0","2","-","0","3">>, sensor_name |-> <<"L","a","n","d","s","a","t"," ","5">>, band_type |-> <<"S","R"," ","B","l","u","e">>,
        csv |-> <<"l","a","n","d","s","a","t","_","5","_","s","r","_","b","l","u","e","_","s","t","a","t","s",".","c","s","v">>, bad |-> "key",
        minimum |-> <<"1">>, maximum |-> <<"2">>, mean |-> <<"1",".","5">>, stddev |-> <<>>],
       [date |-> <<>>, sensor_name |-> <<"L","a","n","d","s","a","t"," ","5">>, band_type |-> <<"S","R"," ","B","l","u","e">>,
        csv |-> <<"l","a","n","d","s","a","t","_","5","_","s","r","_","b","l","u","e","_","s","t","a","t","s",".","c","s","v">>, bad |-> "name",
        minimum |-> <<"1">>, maximum |-> <<"2">>, mean |-> <<"1",".","5">>, stddev |-> <<"0",".","1">>] >>

\* The files a run of process_stats may find in the work directory.
StatFiles == 1..(IF NumFiles < Len(StatFileUniverse) THEN NumFiles ELSE Len(StatFileUniverse))

----------------------------------------------------------------------------
(* glob.glob, read_stats and the dict built from it. *)

\* fnmatch of a name against a pattern of literal characters, * and ?.
RECURSIVE fnmatch(_, _)
fnmatch(name, pattern) ==
    IF pattern = <<>> THEN name = <<>>
    ELSE IF Head(pattern) = "*"
         THEN fnmatch(name, Tail(pattern))
              \/ (name # <<>> /\ fnmatch(Tail(name), pattern))
    ELSE /\ name # <<>>
         /\ (Head(pattern) = "?" \/ Head(pattern) = Head(name))
         /\ fnmatch(Tail(name), Tail(pattern))

\* glob.glob(search_string) in a directory holding `files`: the matching
\* files, as a set; the list comes in the directory's order.
glob(files, search_string) ==
    {f \in files : fnmatch(StatFileUniverse[f].name, search_string)}

\* The lists without repetition of the elements of a set.
ListsOf(S) ==
    {s \in [1..Cardinality(S) -> S] : \A i, j \in DOMAIN s : s[i] = s[j] => i = j}

\* Iterating over an open file: each line ends after its "\n".
RECURSIVE file_lines(_)
file_lines(text) ==
    IF text = <<>> THEN <<>>
    ELSE LET i == Find(text, <<"\n">>, 0)
         IN  IF i < 0 THEN <<text>>
             ELSE <<SubSeq(text, 1, i + 1)>>
                  \o file_lines(SubSeq(text, i + 2, Len(text)))

\* read_stats: the parts of every line, in order.
read_stats(text) ==
    LET lines == file_lines(text)
    IN  [i \in 1..Len(lines) |-> Split(Lower(Strip(lines[i])), <<"=">>)]

\* dict(...) of the parts of the lines: the unpacking into (key, value)
\* needs exactly two parts; a later pair replaces an earlier one.
dict_of(parts) ==
    IF \E i \in 1..Len(parts) : Len(parts[i]) # 2 THEN Raise("ValueError")
    ELSE Ok([key \in {parts[i][1] : i \in 1..Len(parts)} |->
                parts[CHOOSE i \in 1..Len(parts) :
                         /\ parts[i][1] = key
                         /\ \A j \in 1..Len(parts) : parts[j][1] = key => j <= i][2]])

\* dict((key, value) for (key, value) in read_stats(stat_file))
stats_dict(text) == dict_of(read_stats(text))

\* The exception of the first call of a sequence that raised, or "".
FirstExc(results) ==
    LET bad == {i \in 1..Len(results) : results[i].exc # ""}
    IN  IF bad = {} THEN ""
        ELSE results[CHOOSE i \in bad : \A j \in bad : i <= j].exc

\* The orders in which the stats dict filled from the list may be iterated:
\* the keys are the distinct files of the list, and the order of a dict is
\* that of the hashes of its keys, which the list does not decide.
ItemOrders(stat_files) == ListsOf({stat_files[i] : i \in 1..Len(stat_files)})

\* The items of the stats dict once every file is read: <<filename, obj>>
\* per distinct file, in the iteration order `keys` of the dict, or the
\* exception of the first dict(...) that raised.
stats_items(stat_files, keys, dicts) ==
    IF FirstExc(dicts) # "" THEN Raise(FirstExc(dicts))
    ELSE Ok([i \in 1..Len(keys) |->
                [filename |-> StatFileUniverse[keys[i]].name,
                 obj |-> dicts[CHOOSE j \in 1..Len(stat_files) :
                                  stat_files[j] = keys[i]].val]])

\* stats[stat_file] = dict(...) for every file of the list, read in the
\* order of the list; the dict is then iterated in the order `keys`.
read_all(stat_files, keys) ==
    stats_items(stat_files, keys,
                [i \in 1..Len(stat_files) |->
                    stats_dict(StatFileUniverse[stat_files[i]].text)])

----------------------------------------------------------------------------
(* generate_sensor_stats *)

RECURSIVE insert_sorted(_, _)
insert_sorted(line, lines) ==
    IF lines = <<>> THEN <<line>>
    ELSE IF StrLeq(line, Head(lines)) THEN <<line>> \o lines
    ELSE <<Head(lines)>> \o insert_sorted(line, Tail(lines))

RECURSIVE sorted_lines(_)
sorted_lines(lines) ==
    IF lines = <<>> THEN <<>>
    ELSE insert_sorted(Head(lines), sorted_lines(Tail(lines)))

sorted_not(lines) == lines

\* sorted(stat_data)
sorted(lines) == sorted_lines(lines)

REQUIRED_KEYS == <<<<"m","i","n","i","m","u","m">>, <<"m","a","x","i","m","u","m">>, <<"m","e","a","n">>, <<"s","t","d","d","e","v">>>>

required_values_swapped(obj) ==
    IF \E i \in 1..Len(REQUIRED_KEYS) : REQUIRED_KEYS[i] \notin DOMAIN obj
    THEN Raise("KeyError")
    ELSE Ok(<<obj[REQUIRED_KEYS[2]], obj[REQUIRED_KEYS[1]],
              obj[REQUIRED_KEYS[3]], obj[REQUIRED_KEYS[4]]>>)

\* obj['minimum'], obj['maximum'], obj['mean'], obj['stddev']
required_values(obj) ==
    IF \E i \in 1..Len(REQUIRED_KEYS) : REQUIRED_KEYS[i] \notin DOMAIN obj
    THEN Raise("KeyError")
    ELSE Ok([i \in 1..Len(REQUIRED_KEYS) |-> obj[REQUIRED_KEYS[i]]])

\* '%04d-%02d-%02d' % (year, month, day_of_month)
date_str(ymds) ==
    Join(<<"-">>, <<FormatD(ymds[1], 4), FormatD(ymds[2], 2), FormatD(ymds[3], 2)>>)

\* '%s,%s,%s,%s,%s' % (date, obj['minimum'], ...), given the results of
\* get_ymds_from_filename and of the four lookups.
format_line(ymds, values) ==
    IF ymds.exc # "" THEN Raise(ymds.exc)
    ELSE IF values.exc # "" THEN Raise(values.exc)
    ELSE Ok(Join(<<",">>, <<date_str(ymds.val)>> \o values.val))

\* One pass of the record loop: the CSV line of a file.
stat_line(filename, obj) ==
    format_line(get_ymds_from_filename(filename), required_values(obj))

CSV_HEADER == <<"D","A","T","E",",","M","I","N","I","M","U","M",",","M","A","X","I","M","U","M",",","M","E","A","N",",","S","T","D","D","E","V">>

csv_filename_unnormalized(stat_name) == stat_name \o <<"_","s","t","a","t","s",".","c","s","v">>

\* out_filename of generate_sensor_stats
csv_filename(stat_name) == Lower(Replace(stat_name, <<" ">>, <<"_">>)) \o <<"_","s","t","a","t","s",".","c","s","v">>

\* The sorted lines written under the header, or the exception of the
\* first pass of the record loop that raised.
write_lines(stat_name, lines) ==
    IF FirstExc(lines) # "" THEN Raise(FirstExc(lines))
    ELSE Ok([name |-> csv_filename(stat_name),
             data |-> <<CSV_HEADER>> \o sorted([i \in 1..Len(lines) |-> lines[i].val])])

\* The record loop and the output, given the result of the read loop.
write_stats(stat_name, read) ==
    IF read.exc # "" THEN Raise(read.exc)
    ELSE write_lines(stat_name,
                     [i \in 1..Len(read.val) |->
                         stat_line(read.val[i].filename, read.val[i].obj)])

\* generate_sensor_stats(stat_name, stat_files), with the iteration order
\* of its stats dict: the file it writes, as [name, data], data being the
\* lines that "\n" separates in the file.
generate_sensor_stats(stat_name, stat_files, keys) ==
    write_stats(stat_name, read_all(stat_files, keys))

----------------------------------------------------------------------------
(* generate_plot *)

is_digits(s) == \A i \in 1..Len(s) : IsDigit(s[i])

\* An exponent: an optional sign, then at least one digit.
is_exponent(s) ==
    /\ s # <<>>
    /\ IF Head(s) \in {"+", "-"}
       THEN Tail(s) # <<>> /\ is_digits(Tail(s))
       ELSE is_digits(s)

\* A mantissa, split at its points: digits, with at most one point and at
\* least one digit.
is_mantissa(frac) ==
    /\ Len(frac) <= 2
    /\ \A i \in 1..Len(frac) : is_digits(frac[i])
    /\ \E i \in 1..Len(frac) : frac[i] # <<>>

\* A decimal literal, split at its e: a mantissa and at most one exponent.
is_decimal(me) ==
    /\ Len(me) <= 2
    /\ is_mantissa(Split(me[1], <<".">>))
    /\ (Len(me) = 2 => is_exponent(me[2]))

is_unsigned_float(body) ==
    \/ body \in {<<"i","n","f">>, <<"i","n","f","i","n","i","t","y">>, <<"n","a","n">>}
    \/ is_decimal(Split(body, <<"e">>))

\* A str without its sign, if it has one.
unsigned(t) == IF t # <<>> /\ Head(t) \in {"+", "-"} THEN Tail(t) ELSE t

\* float(s) accepts s: a decimal literal with optional sign, fraction and
\* exponent, or a spelling of infinity or of not-a-number, in any case and
\* with surrounding whitespace.
is_float(s) == is_unsigned_float(unsigned(Strip(Lower(s))))

RECURSIVE use_data_range_defaulted(_, _)
use_data_range_defaulted(order, band_type) ==
    IF order = <<>> THEN <<"S","R">>
    ELSE IF StartsWith(band_type, Head(order)) THEN Head(order)
    ELSE use_data_range_defaulted(Tail(order), band_type)

\* The loop over BAND_TYPE_DATA_RANGES: the first key, in the iteration
\* order of the dict, that band_type starts with; '' when there is none.
RECURSIVE use_data_range(_, _)
use_data_range(order, band_type) ==
    IF order = <<>> THEN <<>>
    ELSE IF StartsWith(band_type, Head(order)) THEN Head(order)
    ELSE use_data_range(Tail(order), band_type)

\* float(obj['minimum']), float(obj['maximum']), float(obj['mean']),
\* float(obj['stddev']): the exception of the first that raises, or "".
RECURSIVE float_values_exc(_, _)
float_values_exc(obj, keys) ==
    IF keys = <<>> THEN ""
    ELSE IF Head(keys) \notin DOMAIN obj THEN "KeyError"
    ELSE IF ~is_float(obj[Head(keys)]) THEN "ValueError"
    ELSE float_values_exc(obj, Tail(keys))

\* The statements of a pass after get_ymds_from_filename and datetime.date.
dated_record(day, sensor, obj) ==
    IF day.exc # "" THEN Raise(day.exc)
    ELSE IF float_values_exc(obj, REQUIRED_KEYS) # ""
         THEN Raise(float_values_exc(obj, REQUIRED_KEYS))
    ELSE Ok([date |-> day.val, sensor |-> sensor])

\* The statements of a pass after get_ymds_from_filename.
located_record(ymds, obj) ==
    IF ymds.exc # "" THEN Raise(ymds.exc)
    ELSE dated_record(date(ymds.val[1], ymds.val[2], ymds.val[3]), ymds.val[4], obj)

\* One pass of the loop over stats.items(): the date and sensor of a record.
plot_record(filename, obj) == located_record(get_ymds_from_filename(filename), obj)

\* plot_date_min and plot_date_max after the loop over the records, from
\* datetime.date(9998, 12, 31) and datetime.date(1900, 01, 01).
RECURSIVE date_range(_, _, _)
date_range(records, plot_date_min, plot_date_max) ==
    IF records = <<>> THEN <<plot_date_min, plot_date_max>>
    ELSE date_range(Tail(records),
                    IF Head(records).date < plot_date_min
                    THEN Head(records).date ELSE plot_date_min,
                    IF Head(records).date > plot_date_max
                    THEN Head(records).date ELSE plot_date_max)

TIME_DELTA_5_DAYS == 5

\* plot_date_min -= TIME_DELTA_5_DAYS; plot_date_max += TIME_DELTA_5_DAYS,
\* `passes` times.  A date outside 0001-01-01..9999-12-31 overflows; as
\* every pass moves both dates outwards, a pass overflows exactly when the
\* last one does.
pad_dates(passes, plot_date_min, plot_date_max) ==
    IF passes <= 0 THEN Ok(<<plot_date_min, plot_date_max>>)
    ELSE IF plot_date_min - passes * TIME_DELTA_5_DAYS < date(1, 1, 1).val
         THEN Raise("OverflowError")
    ELSE IF plot_date_max + passes * TIME_DELTA_5_DAYS > date(9999, 12, 31).val
         THEN Raise("OverflowError")
    ELSE Ok(<<plot_date_min - passes * TIME_DELTA_5_DAYS,
              plot_date_max + passes * TIME_DELTA_5_DAYS>>)

increments_one(days) == 1

\* len(range(0, int(date_diff.days/365) + 1)), / being Python 2's floor division
increments(days) == (days \div 365) + 1

plot_title_without_subjects(plot_name, subjects) == Join(<<" ">>, <<plot_name, <<"-">>>>)

\* plot_name, after ' '.join([plot_name, '-'] + subjects)
plot_title(plot_name, subjects) == Join(<<" ">>, <<plot_name, <<"-">>>> \o subjects)

plot_filename_leading(title) ==
    Replace(Lower(IF StartsWith(title, <<"-"," ">>) THEN SubSeq(title, 3, Len(title)) ELSE title),
            <<" ">>, <<"_">>) \o <<"_","p","l","o","t">> \o <<".","p","n","g">>

\* The name of the saved image.
plot_filename(title) ==
    Replace(Lower(Replace(title, <<"-"," ">>, <<>>)), <<" ">>, <<"_">>) \o <<"_","p","l","o","t">> \o <<".","p","n","g">>

\* The padding of the date range found by the loop over the records.
pad_range(dates) == pad_dates(increments(dates[2] - dates[1]), dates[1], dates[2])

\* The saved image, given the padded limits.
save_plot(title, subjects, plot_type, range_type, stat_records, records, limits) ==
    IF limits.exc # "" THEN Raise(limits.exc)
    ELSE Ok([file |-> plot_filename(title),
             ylabel |-> title,
             plot_type |-> plot_type,
             subject |-> IF plot_type = "Range" THEN <<"m","e","a","n">> ELSE Lower(subjects[1]),
             use_data_range |-> range_type,
             legend |-> {records[i].val.sensor : i \in 1..Len(records)},
             xlim |-> limits.val,
             stat_files |-> {stat_records[i].filename : i \in 1..Len(stat_records)}])

\* The statements after the loop over stats.items(), given its passes.
draw_plot(title, subjects, plot_type, range_type, stat_records, records) ==
    IF FirstExc(records) # "" THEN Raise(FirstExc(records))
    ELSE IF \E i \in 1..Len(records) : records[i].val.sensor \notin SENSOR_COLORS_KEYS
         THEN Raise("KeyError")
    ELSE save_plot(title, subjects, plot_type, range_type, stat_records, records,
                   pad_range(date_range([i \in 1..Len(records) |-> records[i].val],
                                        date(9998, 12, 31).val, date(1900, 1, 1).val)))

\* generate_plot, with the iteration order of BAND_TYPE_DATA_RANGES and the
\* items of stats as arguments: the image it saves, or what it raises.
generate_plot(plot_name, subjects, band_type, stat_records, plot_type, order) ==
    IF plot_type \notin {"Range", "Value"} THEN Raise("ValueError")
    ELSE IF use_data_range(order, band_type) = <<>> THEN Raise("ValueError")
    ELSE draw_plot(plot_title(plot_name, subjects), subjects, plot_type,
                   use_data_range(order, band_type), stat_records,
                   [i \in 1..Len(stat_records) |->
                       plot_record(stat_records[i].filename, stat_records[i].obj)])

\* The figures one generate_plot call leaves open: the figure is created at
\* line 515, after the test of plot_type, and closed at line 706 only, once
\* the image is saved, so that a call that raises in between leaves it open.
figures_left_open(plot_type, result) ==
    IF plot_type \in {"Range", "Value"} /\ result.exc # "" THEN 1 ELSE 0

\* The five generate_plot calls of generate_plots: <<subjects, plot_type>>.
plot_calls ==
    << << <<<<"M","i","n","i","m","u","m">>, <<"M","a","x","i","m","u","m">>, <<"M","e","a","n">>>>, "Range">>,
       << <<<<"M","i","n","i","m","u","m">>>>, "Value">>,
       << <<<<"M","a","x","i","m","u","m">>>>, "Value">>,
       << <<<<"M","e","a","n">>>>, "Value">>,
       << <<<<"S","t","d","D","e","v">>>>, "Value">> >>

----------------------------------------------------------------------------
(* process_band_type *)

stat_name_of(sensor_name, band_type) == sensor_name \o <<" ">> \o band_type

plot_name_always(count, sensor_name, band_type) ==
    IF count > 1 THEN <<"M","u","l","t","i"," ","S","e","n","s","o","r"," ">> \o band_type
    ELSE stat_name_of(sensor_name, band_type)

plot_name_last_sensor(count, sensor_name, band_type) ==
    IF count >= 1 THEN stat_name_of(sensor_name, band_type) ELSE <<>>

\* The first argument of the generate_plots call; <<>> when none is made.
plot_name_of(count, sensor_name, band_type) ==
    IF count > 1 THEN <<"M","u","l","t","i"," ","S","e","n","s","o","r"," ">> \o band_type
    ELSE IF count = 1 THEN stat_name_of(sensor_name, band_type)
    ELSE <<>>

----------------------------------------------------------------------------
(* Python float arithmetic: binary64, round to nearest, ties to even.  A   *)
(* float is [sign, m, e], of value sign * m * 2^e, with m a natural number *)
(* written as its digits in base 2^15, the least significant first.  The   *)
(* values here stay far from the largest and the smallest exponent, so     *)
(* the rounding of the significand to 53 bits is all of the format that    *)
(* acts on them.                                                           *)

Limb(n) == n % 32768

Carry(n) == n \div 32768

\* The natural number n, in digits.
RECURSIVE Big(_)
Big(n) == IF n = 0 THEN <<>> ELSE <<Limb(n)>> \o Big(Carry(n))

RECURSIVE BigTrim(_)
BigTrim(a) ==
    IF a # <<>> /\ a[Len(a)] = 0 THEN BigTrim(SubSeq(a, 1, Len(a) - 1)) ELSE a

Digit(a, i) == IF i <= Len(a) THEN a[i] ELSE 0

Rest(a) == IF a = <<>> THEN <<>> ELSE Tail(a)

\* a + b + c, c a carry
RECURSIVE BigAddC(_, _, _)
BigAddC(a, b, c) ==
    IF a = <<>> /\ b = <<>> THEN (IF c = 0 THEN <<>> ELSE <<c>>)
    ELSE <<Limb(Digit(a, 1) + Digit(b, 1) + c)>>
         \o BigAddC(Rest(a), Rest(b), Carry(Digit(a, 1) + Digit(b, 1) + c))

\* a - b - c for a >= b + c, c a borrow
RECURSIVE BigSubB(_, _, _)
BigSubB(a, b, c) ==
    IF a = <<>> THEN <<>>
    ELSE <<Limb(a[1] - Digit(b, 1) - c + 32768)>>
         \o BigSubB(Tail(a), Rest(b), 1 - Carry(a[1] - Digit(b, 1) - c + 32768))

BigSub(a, b) == BigTrim(BigSubB(a, b, 0))

\* a < b
RECURSIVE BigLess(_, _)
BigLess(a, b) ==
    IF Len(a) # Len(b) THEN Len(a) < Len(b)
    ELSE IF a = <<>> THEN FALSE
    ELSE IF a[Len(a)] # b[Len(b)] THEN a[Len(a)] < b[Len(b)]
    ELSE BigLess(SubSeq(a, 1, Len(a) - 1), SubSeq(b, 1, Len(b) - 1))

\* a * k + c for a digit k and a carry c
RECURSIVE BigMulDigit(_, _, _)
BigMulDigit(a, k, c) ==
    IF a = <<>> THEN (IF c = 0 THEN <<>> ELSE <<c>>)
    ELSE <<Limb(a[1] * k + c)>> \o BigMulDigit(Tail(a), k, Carry(a[1] * k + c))

\* a * 2^n
BigShl(a, n) ==
    IF a = <<>> THEN <<>>
    ELSE [i \in 1..(n \div 15) |-> 0] \o BigMulDigit(a, 2^(n % 15), 0)

RECURSIVE BigMul(_, _)
BigMul(a, b) ==
    IF a = <<>> \/ b = <<>> THEN <<>>
    ELSE BigAddC(BigMulDigit(b, a[1], 0), BigShl(BigMul(Tail(a), b), 15), 0)

\* The number of bits of a.
BitLen(a) ==
    IF a = <<>> THEN 0
    ELSE 15 * (Len(a) - 1) + (CHOOSE n \in 1..15 : 2^(n - 1) <= a[Len(a)] /\ a[Len(a)] < 2^n)

\* d * k <= r
Fits(r, d, k) == ~BigLess(r, BigMulDigit(d, k, 0))

\* The largest k of k0 + step * (0..7) with d * k <= r.
Largest(r, d, k0, step) ==
    CHOOSE k \in {k0 + step * c : c \in 0..7} : Fits(r, d, k) /\ ~Fits(r, d, k + step)

\* The largest digit k with d * k <= r, for r < d * 2^15.
QuotientDigit(r, d) ==
    Largest(r, d, Largest(r, d, Largest(r, d, Largest(r, d, Largest(r, d, 0, 4096), 512), 64), 8), 1)

\* <<q * 2^15 + k, r - k * d>>
DivOut(q, r, d, k) == <<BigTrim(<<k>> \o q), BigSub(r, BigMulDigit(d, k, 0))>>

\* <<quotient, remainder>> of n by d for d > 0: long division, h being
\* the quotient and remainder of the digits of n above the lowest.
DivStep(h, digit, d) ==
    IF BigLess(BigTrim(<<digit>> \o h[2]), d)
    THEN <<BigTrim(<<0>> \o h[1]), BigTrim(<<digit>> \o h[2])>>
    ELSE DivOut(h[1], BigTrim(<<digit>> \o h[2]), d,
                QuotientDigit(BigTrim(<<digit>> \o h[2]), d))

RECURSIVE BigDivMod(_, _)
BigDivMod(n, d) ==
    IF n = <<>> THEN <<<<>>, <<>>>>
    ELSE IF d = <<1>> THEN <<n, <<>>>>
    ELSE DivStep(BigDivMod(Tail(n), d), n[1], d)

\* The integer nearest to q + r / d, the even one of two.
RoundHalfEven(qr, d) ==
    IF BigLess(d, BigAddC(qr[2], qr[2], 0)) THEN BigAddC(qr[1], <<>>, 1)
    ELSE IF BigAddC(qr[2], qr[2], 0) = d /\ Digit(qr[1], 1) % 2 = 1
         THEN BigAddC(qr[1], <<>>, 1)
    ELSE qr[1]

\* <<n * 2^s, d>> as a fraction of natural numbers.
Scaled(n, d, s) == <<IF s > 0 THEN BigShl(n, s) ELSE n, IF s < 0 THEN BigShl(d, 0 - s) ELSE d>>

\* The s, of s0 and s0 - 1, with 2^52 <= n * 2^s / d < 2^53.
FitShift(n, d, s0) ==
    IF BigLess(Scaled(n, d, s0)[1], BigShl(Scaled(n, d, s0)[2], 53)) THEN s0 ELSE s0 - 1

RoundAt(sign, nd, e) ==
    [sign |-> sign, m |-> RoundHalfEven(BigDivMod(nd[1], nd[2]), nd[2]), e |-> e]

\* The float nearest to sign * (n / d) * 2^e.
RoundFloat(sign, n, d, e) ==
    IF n = <<>> THEN [sign |-> 1, m |-> <<>>, e |-> 0]
    ELSE RoundAt(sign,
                 Scaled(n, d, FitShift(n, d, 53 - BitLen(n) + BitLen(d))),
                 e - FitShift(n, d, 53 - BitLen(n) + BitLen(d)))

\* sa * ma + sb * mb, exactly, as <<sign, magnitude>>
SignedSum(sa, ma, sb, mb) ==
    IF sa = sb THEN <<sa, BigAddC(ma, mb, 0)>>
    ELSE IF BigLess(ma, mb) THEN <<sb, BigSub(mb, ma)>>
    ELSE <<sa, BigSub(ma, mb)>>

\* x + y, exactly, as [sign, m, e]
ExactSum(x, y) ==
    [sign |-> SignedSum(x.sign, BigShl(x.m, x.e - (IF x.e < y.e THEN x.e ELSE y.e)),
                        y.sign, BigShl(y.m, y.e - (IF x.e < y.e THEN x.e ELSE y.e)))[1],
     m |-> SignedSum(x.sign, BigShl(x.m, x.e - (IF x.e < y.e THEN x.e ELSE y.e)),
                     y.sign, BigShl(y.m, y.e - (IF x.e < y.e THEN x.e ELSE y.e)))[2],
     e |-> IF x.e < y.e THEN x.e ELSE y.e]

Negated(x) == [sign |-> 0 - x.sign, m |-> x.m, e |-> x.e]

\* x == y for floats
float_eq(x, y) == ExactSum(x, Negated(y)).m = <<>>

\* x - y
float_sub(x, y) ==
    RoundFloat(ExactSum(x, Negated(y)).sign, ExactSum(x, Negated(y)).m, <<1>>,
               ExactSum(x, Negated(y)).e)

\* x * y
float_mul(x, y) == RoundFloat(x.sign * y.sign, BigMul(x.m, y.m), <<1>>, x.e + y.e)

\* x / y for y # 0
float_div(x, y) == RoundFloat(x.sign * y.sign, x.m, y.m, x.e - y.e)

\* The float literal of the decimal sign * num / den.
float_literal(sign, num, den) == RoundFloat(sign, Big(num), Big(den), 0)

----------------------------------------------------------------------------
(* scale_data_to_range *)

\* One element of the array expression of scale_data_to_range.
scale_element(in_range, out_range, in_high, out_high, value) ==
    float_sub(out_high, float_div(float_mul(out_range, float_sub(in_high, value)), in_range))

scale_data_to_range_from_low(in_high, in_low, out_high, out_low, data) ==
    [i \in 1..Len(data) |->
        scale_element(float_sub(in_high, in_low), float_sub(out_high, out_low),
                      in_low, out_low, data[i])]

\* data is the numpy array of float64 values, the bounds are floats.
scale_data_to_range(in_high, in_low, out_high, out_low, data) ==
    [i \in 1..Len(data) |->
        scale_element(float_sub(in_high, in_low), float_sub(out_high, out_low),
                      in_high, out_high, data[i])]
----------------------------------------------------------------------------
(* process_stats: the run over the work directory. *)

NoCall == [fn |-> "none"]

\* process is not running: process_stats is run on its own.
NoProcess == [step |-> "none"]

PureIdle == call = NoCall /\ ret = Pending

RunIdle ==
    /\ fs = {}
    /\ range_order = <<>>
    /\ pc = "idle"
    /\ band = 0
    /\ pair = 0
    /\ sensor_count = 0
    /\ single_sensor_name = <<>>
    /\ multi_sensor_files = <<>>
    /\ stats = <<>>
    /\ plot_idx = 0
    /\ csv_writes = <<>>
    /\ plots = <<>>
    /\ unlinked = {}
    /\ error = ""
    /\ figures = 0
    /\ proc = NoProcess

Reverse(s) == [i \in 1..Len(s) |-> s[Len(s) + 1 - i]]

\* The iteration orders of the registry a run is checked with.
RunOrders == {BAND_TYPE_DATA_RANGES_KEYS, Reverse(BAND_TYPE_DATA_RANGES_KEYS)}

arg_sensor_info == process_stats_calls[band][1]

arg_band_type == process_stats_calls[band][2]

Init ==
    /\ PureIdle
    /\ fs \in SUBSET StatFiles
    /\ range_order \in RunOrders
    /\ pc = "process_band_type"
    /\ band = 1
    /\ pair = 0
    /\ sensor_count = 0
    /\ single_sensor_name = <<>>
    /\ multi_sensor_files = <<>>
    /\ stats = <<>>
    /\ plot_idx = 0
    /\ csv_writes = <<>>
    /\ plots = <<>>
    /\ unlinked = {}
    /\ error = ""
    /\ figures = 0
    /\ proc = NoProcess

\* The first statements of process_band_type.
EnterBandType ==
    /\ pc = "process_band_type"
    /\ pc' = "scan"
    /\ pair' = 1
    /\ sensor_count' = 0
    /\ single_sensor_name' = <<>>
    /\ multi_sensor_files' = <<>>
    /\ UNCHANGED <<proc, figures, call, ret, fs, range_order, band, stats, plot_idx,
                   csv_writes, plots, unlinked, error>>

\* One pass of the loop over arg_sensor_info.
ScanPair ==
    /\ pc = "scan"
    /\ LET search_string == arg_sensor_info[pair][1]
           sensor_name == arg_sensor_info[pair][2]
       IN  \E single_sensor_files \in ListsOf(glob(fs, search_string)) :
              IF single_sensor_files = <<>>
              THEN /\ pc' = IF pair < Len(arg_sensor_info) THEN "scan" ELSE "generate_plots"
                   /\ pair' = pair + 1
                   /\ UNCHANGED <<sensor_count, single_sensor_name,
                                  multi_sensor_files, csv_writes, error>>
              ELSE \E keys \in ItemOrders(single_sensor_files) :
                   LET written == generate_sensor_stats(
                                      stat_name_of(sensor_name, arg_band_type),
                                      single_sensor_files, keys)
                   IN  /\ sensor_count' = sensor_count + 1
                       /\ single_sensor_name' = sensor_name
                       /\ IF written.exc # ""
                          THEN /\ pc' = "failed"
                               /\ error' = written.exc
                               /\ UNCHANGED <<pair, multi_sensor_files, csv_writes>>
                          ELSE /\ csv_writes' =
                                      Append(csv_writes,
                                             [band |-> band, pair |-> pair,
                                              stat_files |-> single_sensor_files,
                                              name |-> written.val.name,
                                              data |-> written.val.data])
                               /\ multi_sensor_files' =
                                      multi_sensor_files \o single_sensor_files
                               /\ pc' = IF pair < Len(arg_sensor_info)
                                        THEN "scan" ELSE "generate_plots"
                               /\ pair' = pair + 1
                               /\ error' = error
    /\ UNCHANGED <<proc, figures, call, ret, fs, range_order, band, stats, plot_idx, plots, unlinked>>

\* The generate_plots call, up to its first generate_plot: the files are read.
GeneratePlots ==
    /\ pc = "generate_plots"
    /\ IF plot_name_of(sensor_count, single_sensor_name, arg_band_type) = <<>>
       THEN /\ pc' = "cleanup"
            /\ UNCHANGED <<stats, plot_idx, error>>
       ELSE \E keys \in ItemOrders(multi_sensor_files) :
            LET read == read_all(multi_sensor_files, keys)
            IN  IF read.exc # ""
                THEN /\ pc' = "failed"
                     /\ error' = read.exc
                     /\ UNCHANGED <<stats, plot_idx>>
                ELSE /\ pc' = "generate_plot"
                     /\ stats' = read.val
                     /\ plot_idx' = 1
                     /\ error' = error
    /\ UNCHANGED <<proc, figures, call, ret, fs, range_order, band, pair, sensor_count,
                   single_sensor_name, multi_sensor_files, csv_writes, plots, unlinked>>

\* The first statements of a generate_plot call of generate_plots: the
\* plot type is tested and the figure is created.
CreateFigure ==
    /\ pc = "generate_plot"
    /\ IF plot_calls[plot_idx][2] \notin {"Range", "Value"}
       THEN /\ pc' = "failed"
            /\ error' = "ValueError"
            /\ figures' = figures
       ELSE /\ pc' = "draw_plot"
            /\ error' = error
            /\ figures' = figures + 1
    /\ UNCHANGED <<proc, call, ret, fs, range_order, band, pair, sensor_count,
                   single_sensor_name, multi_sensor_files, stats, plot_idx,
                   csv_writes, plots, unlinked>>

GeneratePlot_figure_left_open ==
    /\ pc = "draw_plot"
    /\ LET saved == generate_plot(
                        plot_name_of(sensor_count, single_sensor_name, arg_band_type),
                        plot_calls[plot_idx][1], arg_band_type, stats,
                        plot_calls[plot_idx][2], range_order)
       IN  IF saved.exc # ""
           THEN /\ pc' = "failed"
                /\ error' = saved.exc
                /\ UNCHANGED <<plots, plot_idx, stats>>
           ELSE /\ plots' = Append(plots, [band |-> band, plot |-> saved.val])
                /\ error' = error
                /\ IF plot_idx < Len(plot_calls)
                   THEN /\ pc' = "generate_plot"
                        /\ plot_idx' = plot_idx + 1
                        /\ stats' = stats
                   ELSE /\ pc' = "cleanup"
                        /\ plot_idx' = 0
                        /\ stats' = <<>>
    /\ UNCHANGED <<proc, figures, call, ret, fs, range_order, band, pair, sensor_count,
                   single_sensor_name, multi_sensor_files, csv_writes, unlinked>>

\* The rest of the generate_plot call: the plot is drawn on the figure and
\* saved, and the figure is closed.  An exception leaves the call before
\* mpl_plot.close().
GeneratePlot ==
    /\ pc = "draw_plot"
    /\ LET saved == generate_plot(
                        plot_name_of(sensor_count, single_sensor_name, arg_band_type),
                        plot_calls[plot_idx][1], arg_band_type, stats,
                        plot_calls[plot_idx][2], range_order)
       IN  IF saved.exc # ""
           THEN /\ pc' = "failed"
                /\ error' = saved.exc
                /\ figures' = figures
                /\ UNCHANGED <<plots, plot_idx, stats>>
           ELSE /\ plots' = Append(plots, [band |-> band, plot |-> saved.val])
                /\ error' = error
                /\ figures' = figures - 1
                /\ IF plot_idx < Len(plot_calls)
                   THEN /\ pc' = "generate_plot"
                        /\ plot_idx' = plot_idx + 1
                        /\ stats' = stats
                   ELSE /\ pc' = "cleanup"
                        /\ plot_idx' = 0
                        /\ stats' = <<>>
    /\ UNCHANGED <<proc, call, ret, fs, range_order, band, pair, sensor_count,
                   single_sensor_name, multi_sensor_files, csv_writes, unlinked>>

Cleanup_on_failure ==
    /\ pc \in {"cleanup", "failed"}
    /\ pc' = IF pc = "failed" THEN "failed" ELSE "returned"
    /\ LET processed == {multi_sensor_files[i] : i \in 1..Len(multi_sensor_files)} \cap fs
       IN  /\ fs' = fs \ processed
           /\ unlinked' = unlinked \cup {<<band, f>> : f \in processed}
    /\ UNCHANGED <<proc, figures, call, ret, range_order, band, pair, sensor_count,
                   single_sensor_name, multi_sensor_files, stats, plot_idx,
                   csv_writes, plots, error>>

\* The removal of the processed files, and the return of process_band_type.
Cleanup ==
    /\ pc = "cleanup"
    /\ pc' = "returned"
    /\ LET processed == IF sensor_count > 0
                        THEN {multi_sensor_files[i] : i \in 1..Len(multi_sensor_files)} \cap fs
                        ELSE {}
       IN  /\ fs' = fs \ processed
           /\ unlinked' = unlinked \cup {<<band, f>> : f \in processed}
    /\ UNCHANGED <<proc, figures, call, ret, range_order, band, pair, sensor_count,
                   single_sensor_name, multi_sensor_files, stats, plot_idx,
                   csv_writes, plots, error>>

NextBandType_isolating ==
    /\ pc \in {"returned", "failed"}
    /\ IF band < Len(process_stats_calls)
       THEN /\ band' = band + 1
            /\ pc' = "process_band_type"
       ELSE /\ band' = band
            /\ pc' = "done"
    /\ UNCHANGED <<proc, figures, call, ret, fs, range_order, pair, sensor_count,
                   single_sensor_name, multi_sensor_files, stats, plot_idx,
                   csv_writes, plots, unlinked, error>>

\* process_stats goes on to its next process_band_type call, or returns.
NextBandType ==
    /\ pc = "returned"
    /\ IF band < Len(process_stats_calls)
       THEN /\ band' = band + 1
            /\ pc' = "process_band_type"
       ELSE /\ band' = band
            /\ pc' = "done"
    /\ UNCHANGED <<proc, figures, call, ret, fs, range_order, pair, sensor_count,
                   single_sensor_name, multi_sensor_files, stats, plot_idx,
                   csv_writes, plots, unlinked, error>>

Next ==
    \/ EnterBandType
    \/ ScanPair
    \/ GeneratePlots
    \/ CreateFigure
    \/ GeneratePlot
    \/ Cleanup
    \/ NextBandType

Spec == Init /\ [][Next]_vars

----------------------------------------------------------------------------
(* get_mdom_from_ydoy and get_ymds_from_filename on scene names. *)

MaxDayOfYear == 367

DecodeYears == {1, 1900, 2000, 2015, 2016, 2100, 9999}

Sensors == {"Terra", "Aqua", "LT4", "LT5", "LE7"}

DigitChars == <<"0", "1", "2", "3", "4", "5", "6", "7", "8", "9">>

RECURSIVE Pow10(_)
Pow10(n) == IF n = 0 THEN 1 ELSE 10 * Pow10(n - 1)

\* The decimal digits of n in a field of the given width.
Field(n, width) == [i \in 1..width |-> DigitChars[((n \div Pow10(width - i)) % 10) + 1]]

\* A stat file name of a scene of the sensor, acquired on the day of the year.
SceneName(sensor, year, day_of_year, suffix) ==
    CASE sensor = "Terra" ->
            <<"M","O","D","0","9","A","1",".","A">> \o Field(year, 4) \o Field(day_of_year, 3) \o <<".","h","1","0","v","0","4">> \o suffix
      [] sensor = "Aqua" ->
            <<"M","Y","D","0","9","A","1",".","A">> \o Field(year, 4) \o Field(day_of_year, 3) \o <<".","h","1","0","v","0","4">> \o suffix
      [] sensor = "LT4" ->
            <<"L","T","4","0","2","9","0","3","0">> \o Field(year, 4) \o Field(day_of_year, 3) \o suffix
      [] sensor = "LT5" ->
            <<"L","T","5","0","2","9","0","3","0">> \o Field(year, 4) \o Field(day_of_year, 3) \o suffix
      [] sensor = "LE7" ->
            <<"L","E","7","0","2","9","0","3","0">> \o Field(year, 4) \o Field(day_of_year, 3) \o suffix

\* Names that follow no single convention: names that satisfy several of
\* the rules of get_ymds_from_filename, names that satisfy none, and names
\* of a sensor without the date fields.
OtherNames ==
    { <<"M","O","D","0","9","A","1",".","A","2","0","1","6","0","3","3",".","L","T","5","_","b","1",".","s","t","a","t","s">>,
      <<"M","Y","D","0","9","A","1",".","A","2","0","1","5","0","6","0",".","M","O","D",".","L","E","7",".","s","t","a","t","s">>,
      <<"M","O","D","M","Y","D",".","2","0","1","6","0","6","0",".","s","t","a","t","s">>,
      <<"L","T","4","0","2","9","0","3","0","2","0","1","6","0","3","3","_","L","T","5","_","L","E","7",".","s","t","a","t","s">>,
      <<"L","T","5","0","2","9","0","3","0","2","0","1","6","0","3","3","_","L","T","4",".","s","t","a","t","s">>,
      <<"L","E","7","0","2","9","0","3","0","2","0","1","5","0","6","0","_","L","T","5","_","b","1",".","s","t","a","t","s">>,
      <<"L","E","7","L","T","5","L","T","4","2","0","1","6","3","6","6","_","b","1",".","s","t","a","t","s">>,
      <<"x","M","O","D","0","9","A","1",".","A","2","0","1","6","0","3","3",".","h","1","0","v","0","4",".","s","t","a","t","s">>,
      <<"A","M","Y","D","0","9","A","1",".","A","2","0","1","6","0","3","3",".","s","t","a","t","s">>,
      <<"l","t","5","0","2","9","0","3","0","2","0","1","6","0","3","3","_","b","1",".","s","t","a","t","s">>,
      <<"L","T","8","0","2","9","0","3","0","2","0","1","6","0","3","3","_","b","1",".","s","t","a","t","s">>,
      <<"l","a","n","d","s","a","t","_","5","_","s","r","_","b","l","u","e","_","s","t","a","t","s",".","c","s","v">>,
      <<"L"," ","T","5">>,
      <<"L","E">>,
      <<>>,
      <<"L","T","5",".","s","t","a","t","s">>,
      <<"M","O","D",".","s","t","a","t","s">>,
      <<"L","T","5","0","2","9","0","3","0","2","0","1","6","+"," ","1","_","s","r",".","s","t","a","t","s">>,
      <<"L","T","5","0","2","9","0","3","0","2","0","1","6","-"," ","1","_","s","r",".","s","t","a","t","s">>,
      <<"L","T","5","0","2","9","0","3","0","+"," ","1","6","0","3","3","_","s","r","_","b","a","n","d","1",".","s","t","a","t","s">>,
      <<"M","O","D","0","9","A","1",".","A","2","0","1","6">> \o <<"\f">> \o <<"3","3",".","x">> }

InitDecode ==
    /\ RunIdle
    /\ ret = Pending
    /\ \/ \E y \in DecodeYears, d \in 0..MaxDayOfYear :
             \/ call = [fn |-> "get_mdom_from_ydoy", year |-> y, day_of_year |-> d,
                        sensor |-> "", filename |-> <<>>]
             \/ \E s \in Sensors :
                   call = [fn |-> "get_ymds_from_filename", year |-> y, day_of_year |-> d,
                           sensor |-> s, filename |-> SceneName(s, y, d, <<"_","b","1",".","s","t","a","t","s">>)]
       \/ \E name \in OtherNames :
             call = [fn |-> "get_ymds_from_filename", year |-> 0, day_of_year |-> 0,
                     sensor |-> "", filename |-> name]

Call_get_mdom_from_ydoy ==
    /\ call.fn = "get_mdom_from_ydoy"
    /\ ret.exc = "pending"
    /\ ret' = get_mdom_from_ydoy(call.year, call.day_of_year)
    /\ UNCHANGED <<call, runVars>>

Call_get_ymds_from_filename ==
    /\ call.fn = "get_ymds_from_filename"
    /\ ret.exc = "pending"
    /\ ret' = get_ymds_from_filename(call.filename)
    /\ UNCHANGED <<call, runVars>>

NextDecode == Call_get_mdom_from_ydoy \/ Call_get_ymds_from_filename

SpecDecode == InitDecode /\ [][NextDecode]_vars

----------------------------------------------------------------------------
(* generate_sensor_stats on lists of stat files. *)

MaxStatFiles == 3

\* The lists without repetition of at most n elements of S.
ListsUpTo(S, n) == UNION {ListsOf(T) : T \in {U \in SUBSET S : Cardinality(U) <= n}}

\* The elements of a set of numbers, smallest first.
RECURSIVE Ascending(_)
Ascending(S) ==
    IF S = {} THEN <<>>
    ELSE LET least == CHOOSE x \in S : \A y \in S : x <= y
         IN  <<least>> \o Ascending(S \ {least})

\* The lists of stat files a call is checked with: at most MaxStatFiles
\* files, listed forwards or backwards.  The order of the list is that of
\* the reads; the order of the record loop is chosen at the call.
StatFileLists ==
    UNION {{Ascending(T), Reverse(Ascending(T))} :
              T \in {U \in SUBSET (1..Len(StatFileUniverse)) : Cardinality(U) <= MaxStatFiles}}

InitStats ==
    /\ RunIdle
    /\ ret = Pending
    /\ \E stat_name \in {<<"L","a","n","d","s","a","t"," ","5"," ","S","R"," ","B","l","u","e">>, <<"T","e","r","r","a"," ","L","S","T"," ","D","a","y">>},
          stat_files \in StatFileLists :
          call = [fn |-> "generate_sensor_stats", stat_name |-> stat_name,
                  stat_files |-> stat_files]

Call_generate_sensor_stats ==
    /\ call.fn = "generate_sensor_stats"
    /\ ret.exc = "pending"
    /\ \E keys \in ItemOrders(call.stat_files) :
          ret' = generate_sensor_stats(call.stat_name, call.stat_files, keys)
    /\ UNCHANGED <<call, runVars>>

NextStats == Call_generate_sensor_stats

SpecStats == InitStats /\ [][NextStats]_vars

----------------------------------------------------------------------------
(* generate_plot on the records of scenes of given dates. *)

MaxPlotFiles == 2

PlotYears == {1, 1899, 1900, 2015, 2016, 9998, 9999}

PlotDays == {1, 365}

\* The items of stats for a list of <<year, day_of_year>> scenes of Landsat 5,
\* in the order of the list.
scene_records(scenes) ==
    [i \in 1..Len(scenes) |->
        [filename |-> SceneName("LT5", scenes[i][1], scenes[i][2], <<"_","s","r","_","b","a","n","d","1",".","s","t","a","t","s">>),
         obj |-> stats_dict(StatFileUniverse[1].text).val]]

InitPlot ==
    /\ RunIdle
    /\ ret = Pending
    /\ \E scenes \in ListsUpTo(PlotYears \X PlotDays, MaxPlotFiles), idx \in {1, 2} :
          call = [fn |-> "generate_plot", scenes |-> scenes, idx |-> idx]

Call_generate_plot ==
    /\ call.fn = "generate_plot"
    /\ ret.exc = "pending"
    /\ \E items \in ItemOrders(call.scenes) :
       /\ ret' = generate_plot(<<"L","a","n","d","s","a","t"," ","5"," ","S","R"," ","B","l","u","e">>, plot_calls[call.idx][1], <<"S","R"," ","B","l","u","e">>,
                               scene_records(items), plot_calls[call.idx][2],
                               BAND_TYPE_DATA_RANGES_KEYS)
       /\ figures' = figures + figures_left_open(plot_calls[call.idx][2], ret')
    /\ UNCHANGED <<call, runData, proc>>

NextPlot == Call_generate_plot

SpecPlot == InitPlot /\ [][NextPlot]_vars

----------------------------------------------------------------------------
(* scale_data_to_range on arrays of values. *)

MaxData == 1

\* The data bounds of BAND_TYPE_DATA_RANGES, and 5000.0 between them.
InValues ==
    {float_literal(-1, 1000, 1), float_literal(1, 0, 1), float_literal(1, 1, 1),
     float_literal(1, 255, 1), float_literal(1, 7500, 1), float_literal(1, 10000, 1),
     float_literal(1, 65535, 1)}

\* The scale bounds of BAND_TYPE_DATA_RANGES, and 0.7 and 100.0.
OutValues ==
    {float_literal(-1, 1, 10), float_literal(1, 0, 1), float_literal(1, 1, 1),
     float_literal(1, 7, 10), float_literal(1, 100, 1)}

\* x < y for floats
float_lt(x, y) == ExactSum(x, Negated(y)).m # <<>> /\ ExactSum(x, Negated(y)).sign = -1

\* The arrays of at most n elements of S.
ArraysUpTo(S, n) == UNION {[1..k -> S] : k \in 0..n}

InitScale ==
    /\ RunIdle
    /\ ret = Pending
    /\ \E in_high \in InValues, in_low \in InValues, out_high \in OutValues,
          out_low \in OutValues :
          /\ float_lt(in_low, in_high)
          /\ ~float_eq(out_low, out_high)
          /\ \E data \in ArraysUpTo({in_high, in_low, float_literal(1, 5000, 1)}, MaxData) :
                call = [fn |-> "scale_data_to_range", in_high |-> in_high,
                        in_low |-> in_low, out_high |-> out_high,
                        out_low |-> out_low, data |-> data]

Call_scale_data_to_range ==
    /\ call.fn = "scale_data_to_range"
    /\ ret.exc = "pending"
    /\ ret' = Ok(scale_data_to_range(call.in_high, call.in_low, call.out_high,
                                     call.out_low, call.data))
    /\ UNCHANGED <<call, runVars>>

NextScale == Call_scale_data_to_range

SpecScale == InitScale /\ [][NextScale]_vars

----------------------------------------------------------------------------
(* generate_plot on plot names and band types. *)

\* Group titles of process_band_type, and two names that hold "- ".
PlotNames ==
    {<<"L","a","n","d","s","a","t"," ","5"," ","S","R"," ","B","l","u","e">>, <<"M","u","l","t","i"," ","S","e","n","s","o","r"," ","N","B","R","2">>, <<"T","e","r","r","a"," ","L","S","T"," ","D","a","y">>,
     <<"P","r","e","-"," ","F","i","r","e"," ","N","B","R">>, <<"-"," ","D","r","a","f","t">>}

\* Band types of process_stats, and labels that no key of the registry
\* starts: one of another product, one in lower case, the empty one.
PlotBandTypes ==
    {<<"S","R"," ","B","l","u","e">>, <<"N","B","R","2">>, <<"L","S","T"," ","D","a","y">>, <<"E","m","i","s"," ","2","0">>, <<"A","l","b","e","d","o">>, <<"s","r"," ","b","l","u","e">>, <<>>}

\* The stats of no file, and of one scene.
PlotScenes == {<<>>, <<<<2016, 33>>>>}

InitLabel ==
    /\ RunIdle
    /\ ret = Pending
    /\ \E plot_name \in PlotNames, band_type \in PlotBandTypes, scenes \in PlotScenes,
          idx \in 1..Len(plot_calls), order \in RunOrders :
          call = [fn |-> "generate_plot_label", plot_name |-> plot_name,
                  band_type |-> band_type, scenes |-> scenes, idx |-> idx,
                  order |-> order]

Call_generate_plot_label ==
    /\ call.fn = "generate_plot_label"
    /\ ret.exc = "pending"
    /\ ret' = generate_plot(call.plot_name, plot_calls[call.idx][1], call.band_type,
                            scene_records(call.scenes), plot_calls[call.idx][2],
                            call.order)
    /\ figures' = figures + figures_left_open(plot_calls[call.idx][2], ret')
    /\ UNCHANGED <<call, runData, proc>>

NextLabel == Call_generate_plot_label

SpecLabel == InitLabel /\ [][NextLabel]_vars


(***************************************************************************)
(* process: the statistics are fetched into the work directory, processed  *)
(* there, and the results are sent back and verified.                      *)
(***************************************************************************)

\* The files of the work directory that glob.glob('*') lists after
\* process_stats: what is left of the statistics, the CSV files, the plots.
lpcs_files == {StatFileUniverse[f].name : f \in fs}
                 \cup {csv_writes[i].name : i \in 1..Len(csv_writes)}
                 \cup {plots[i].plot.file : i \in 1..Len(plots)}

InitProcess ==
    /\ PureIdle
    /\ fs = {}
    /\ range_order = <<>>
    /\ pc = "idle"
    /\ band = 0
    /\ pair = 0
    /\ sensor_count = 0
    /\ single_sensor_name = <<>>
    /\ multi_sensor_files = <<>>
    /\ stats = <<>>
    /\ plot_idx = 0
    /\ csv_writes = <<>>
    /\ plots = <<>>
    /\ unlinked = {}
    /\ error = ""
    /\ figures = 0
    /\ \E keep \in BOOLEAN, workdir \in {"absent", "present"} :
          proc = [step |-> "fetch", keep |-> keep, workdir |-> workdir,
                  cwd |-> "start", raised |-> "", cause |-> ""]

\* The work directory of an earlier run is removed and the statistics are
\* copied from the online cache.  When the copy fails, what scp has already
\* written stays behind, and the handler reads output, which is not bound:
\* the exception that leaves process is an UnboundLocalError.  Nothing
\* encloses these statements, so process is left at once.
FetchStats ==
    /\ proc.step = "fetch"
    /\ \/ /\ \E files \in SUBSET StatFiles, order \in RunOrders :
                /\ fs' = files
                /\ range_order' = order
          /\ pc' = "process_band_type"
          /\ band' = 1
          /\ proc' = [proc EXCEPT !.step = "process_stats", !.workdir = "present",
                                  !.cwd = "work"]
       \/ /\ \E left \in {"absent", "present"} :
                proc' = [proc EXCEPT !.step = "raised", !.workdir = left,
                                     !.raised = "UnboundLocalError", !.cause = "fetch"]
          /\ UNCHANGED <<fs, range_order, pc, band>>
    /\ UNCHANGED <<call, ret, pair, sensor_count, single_sensor_name,
                   multi_sensor_files, stats, plot_idx, csv_writes, plots,
                   unlinked, error, figures>>

\* An exception of process_stats leaves the try block.
StatsRaised ==
    /\ proc.step = "process_stats"
    /\ pc = "failed"
    /\ proc' = [proc EXCEPT !.step = "finally", !.raised = error,
                            !.cause = "process_stats"]
    /\ UNCHANGED <<call, ret, runFields>>

\* After process_stats: ssh mkdir -p of the remote directory.
MakeRemoteDirectory ==
    /\ proc.step = "process_stats"
    /\ pc = "done"
    /\ \/ proc' = [proc EXCEPT !.step = "transfer"]
       \/ proc' = [proc EXCEPT !.step = "finally", !.raised = "Exception",
                               !.cause = "mkdir"]
    /\ UNCHANGED <<call, ret, runFields>>

\* scp_transfer_file of the results to the online cache.
TransferFiles ==
    /\ proc.step = "transfer"
    /\ \/ proc' = [proc EXCEPT !.step = "verify"]
       \/ proc' = [proc EXCEPT !.step = "finally", !.raised = "Exception",
                               !.cause = "transfer"]
    /\ UNCHANGED <<call, ret, runFields>>

\* The loop over the files of the work directory: cksum of the local file,
\* cksum of the remote file, comparison.  The first failure leaves the loop.
VerifyTransfers ==
    /\ proc.step = "verify"
    /\ \/ proc' = [proc EXCEPT !.step = "finally"]
       \/ /\ lpcs_files # {}
          /\ \E cause \in {"local cksum", "remote cksum", "checksum validation"} :
                proc' = [proc EXCEPT !.step = "finally", !.raised = "Exception",
                                     !.cause = cause]
    /\ UNCHANGED <<call, ret, runFields>>

\* The finally clause: back to the previous directory, and the work
\* directory is removed unless --keep was given.
Finally ==
    /\ proc.step = "finally"
    /\ proc' = [proc EXCEPT !.step = IF proc.raised = "" THEN "returned" ELSE "raised",
                            !.cwd = "start",
                            !.workdir = IF proc.keep THEN proc.workdir ELSE "absent"]
    /\ UNCHANGED <<call, ret, runFields>>

NextProcess ==
    \/ FetchStats
    \/ Next
    \/ StatsRaised
    \/ MakeRemoteDirectory
    \/ TransferFiles
    \/ VerifyTransfers
    \/ Finally

SpecProcess == InitProcess /\ [][NextProcess]_vars

----------------------------------------------------------------------------
(* read_stats and the dict built from it, on the text of one stat file. *)

MaxLineLen == 3

\* The characters the lines are made of.
LineChars == {"k", "K", "=", "2", " "}

\* The lines a second line is drawn from.
SecondLines == {<<"k","=","7">>, <<"m","e","a","n","=","1",".","5">>, <<" ","M","e","a","n"," ","="," ","1","=","5"," ">>,
                <<"\f">> \o <<"M","e","a","n","=","1">> \o <<VerticalTab, "\r">>}

InitRead ==
    /\ RunIdle
    /\ ret = Pending
    /\ \E line \in ArraysUpTo(LineChars, MaxLineLen) :
          \/ call = [fn |-> "stats_dict", lines |-> <<line>>,
                     text |-> line \o <<"\n">>]
          \/ \E second \in SecondLines :
                call = [fn |-> "stats_dict", lines |-> <<line, second>>,
                        text |-> line \o <<"\n">> \o second \o <<"\n">>]

Call_stats_dict ==
    /\ call.fn = "stats_dict"
    /\ ret.exc = "pending"
    /\ ret' = stats_dict(call.text)
    /\ UNCHANGED <<call, runVars>>

NextRead == Call_stats_dict

SpecRead == InitRead /\ [][NextRead]_vars
----------------------------------------------------------------------------
(* What the checks compare the program with: the calendar, computed from   *)
(* the leap-year rule, and the work directory of a process_band_type call. *)

Leap(y) == (y % 4 = 0 /\ y % 100 # 0) \/ y % 400 = 0

DaysInMonth(y, m) ==
    <<31, IF Leap(y) THEN 29 ELSE 28, 31, 30, 31, 30, 31, 31, 30, 31, 30, 31>>[m]

DaysInYear(y) == IF Leap(y) THEN 366 ELSE 365

\* The days of the year y before its month m.
RECURSIVE DaysBefore(_, _)
DaysBefore(y, m) == IF m = 1 THEN 0 ELSE DaysBefore(y, m - 1) + DaysInMonth(y, m - 1)

\* The month the day d of the year y falls in.
MonthOf(y, d) == CHOOSE m \in 1..12 : DaysBefore(y, m) < d /\ d <= DaysBefore(y, m) + DaysInMonth(y, m)

\* The days from 0001-01-01 to the day d of the year y, that day included.
DayNumber(y, d) ==
    365 * (y - 1) + ((y - 1) \div 4) - ((y - 1) \div 100) + ((y - 1) \div 400) + d

\* The files in the work directory when the current call of
\* process_band_type began.
PresentAtCall == fs \cup {f \in StatFiles : <<band, f>> \in unlinked}

\* The files of the pair p of the current call, by what they were made as.
PairFiles(p) ==
    {f \in PresentAtCall : /\ StatFileTruth[f].sensor_name = arg_sensor_info[p][2]
                           /\ StatFileTruth[f].band_type = arg_band_type}

MatchedPairs == {p \in 1..Len(arg_sensor_info) : PairFiles(p) # {}}

InCall == pc \notin {"idle", "process_band_type", "done"}

\* The row a stat file was made to give.
ExpectedRow(f) ==
    StatFileTruth[f].date \o <<",">> \o StatFileTruth[f].minimum \o <<",">>
    \o StatFileTruth[f].maximum \o <<",">> \o StatFileTruth[f].mean \o <<",">>
    \o StatFileTruth[f].stddev

\* The text of a CSV row before its first comma.
RowDate(row) == Slice(row, 0, Find(row, <<",">>, 0))

----------------------------------------------------------------------------
(* C1: a process_band_type call none of whose patterns matches a file      *)
(* writes no CSV file, saves no plot, deletes no file and does not raise.  *)
C1_NoMatchNoOutput ==
    (InCall /\ MatchedPairs = {}) =>
        /\ pc \notin {"failed", "generate_plot", "draw_plot"}
        /\ error = ""
        /\ \A i \in 1..Len(csv_writes) : csv_writes[i].band # band
        /\ \A i \in 1..Len(plots) : plots[i].band # band
        /\ \A f \in StatFiles : <<band, f>> \notin unlinked

C1_Witness == pc = "returned" /\ MatchedPairs = {} /\ fs # {} /\ band = 2

(* C2: the data rows of the CSV generate_sensor_stats writes are in        *)
(* non-decreasing order of their date string, whatever the order of the    *)
(* list of stat files.                                                     *)
C2_RowsAscending ==
    (call.fn = "generate_sensor_stats" /\ ret.exc = "") =>
        \A i \in 2..(Len(ret.val.data) - 1) :
            StrLeq(RowDate(ret.val.data[i]), RowDate(ret.val.data[i + 1]))

C2_Witness ==
    /\ call.fn = "generate_sensor_stats"
    /\ call.stat_files = <<3, 2, 1>>
    /\ ret.exc = ""
    /\ Len(ret.val.data) = 4

(* C3: the CSV generate_sensor_stats writes for N stat files is the header *)
(* DATE,MINIMUM,MAXIMUM,MEAN,STDDEV and then exactly N rows, one per file, *)
(* each the file's date, minimum, maximum, mean and stddev.                *)
C3_HeaderAndRows ==
    (call.fn = "generate_sensor_stats" /\ ret.exc = "") =>
        /\ ret.val.data[1] = <<"D","A","T","E",",","M","I","N","I","M","U","M",",","M","A","X","I","M","U","M",",","M","E","A","N",",","S","T","D","D","E","V">>
        /\ Len(ret.val.data) = 1 + Len(call.stat_files)
        /\ \E order \in ListsOf(1..Len(call.stat_files)) :
              \A i \in 1..Len(call.stat_files) :
                  ret.val.data[i + 1] = ExpectedRow(call.stat_files[order[i]])

C3_Witness ==
    /\ call.fn = "generate_sensor_stats"
    /\ call.stat_files = <<9, 8, 2>>
    /\ ret.exc = ""
    /\ ret.val.data[3] = <<"1","9","8","9","-","1","2","-","3","1",",","1","0","0",",","2","0","0",",","1","5","0",",","9">>

(* C4: for a day d of a year of 1 <= d <= the days of the year,            *)
(* get_mdom_from_ydoy returns (month, day) with month in 1..12, day within *)
(* the month and (days of the months before) + day = d; day 60 is (2, 29)  *)
(* in a leap year and (3, 1) in any other.  The years are those of the     *)
(* calendar, 1 to 9999.                                                    *)
C4_MonthAndDay ==
    (/\ call.fn = "get_mdom_from_ydoy"
     /\ ret.exc # "pending"
     /\ 1 <= call.day_of_year
     /\ call.day_of_year <= DaysInYear(call.year)) =>
        /\ ret.exc = ""
        /\ Len(ret.val) = 2
        /\ ret.val[1] \in 1..12
        /\ ret.val[2] \in 1..DaysInMonth(call.year, ret.val[1])
        /\ DaysBefore(call.year, ret.val[1]) + ret.val[2] = call.day_of_year
        /\ (call.day_of_year = 60 =>
               ret.val = IF Leap(call.year) THEN <<2, 29>> ELSE <<3, 1>>)

C4_Witness ==
    /\ call.fn = "get_mdom_from_ydoy"
    /\ call.year = 2016
    /\ call.day_of_year = 60
    /\ ret = Ok(<<2, 29>>)

(* C5: for a name of a sensor's convention that carries a year and a day   *)
(* of that year, get_ymds_from_filename returns the year, the month and    *)
(* day the day of the year falls on, and the sensor: the fields are        *)
(* characters 1-4 and 5-7 of the second dot-separated segment of a MOD or  *)
(* MYD name and the offsets 9-12 and 13-15 of an LT4, LT5 or LE7 name.     *)
C5_DecodedName ==
    (/\ call.fn = "get_ymds_from_filename"
     /\ ret.exc # "pending"
     /\ 1 <= call.day_of_year
     /\ call.day_of_year <= DaysInYear(call.year)) =>
        /\ IF call.sensor \in {"Terra", "Aqua"}
           THEN /\ SubSeq(Split(call.filename, <<".">>)[2], 2, 5) = Field(call.year, 4)
                /\ SubSeq(Split(call.filename, <<".">>)[2], 6, 8) = Field(call.day_of_year, 3)
           ELSE /\ SubSeq(call.filename, 10, 13) = Field(call.year, 4)
                /\ SubSeq(call.filename, 14, 16) = Field(call.day_of_year, 3)
        /\ ret = Ok(<<call.year,
                      MonthOf(call.year, call.day_of_year),
                      call.day_of_year
                          - DaysBefore(call.year, MonthOf(call.year, call.day_of_year)),
                      call.sensor>>)

C5_Witness ==
    /\ call.fn = "get_ymds_from_filename"
    /\ call.filename = <<"M","O","D","0","9","A","1",".","A","2","0","1","6","0","3","3",".","h","1","0","v","0","4","_","b","1",".","s","t","a","t","s">>
    /\ ret = Ok(<<2016, 2, 2, "Terra">>)

(* C6: the range lookup of generate_plot selects, of the registry keys the *)
(* band type starts with, the longest one, whatever the iteration order of *)
(* the registry.                                                           *)
C6_LongestKeySelected ==
    \A i \in 1..Len(plots) :
        LET label == process_stats_calls[plots[i].band][2]
            keys == {BAND_TYPE_DATA_RANGES_KEYS[k] : k \in 1..Len(BAND_TYPE_DATA_RANGES_KEYS)}
            matching == {key \in keys : StartsWith(label, key)}
        IN  \A key \in matching : Len(key) <= Len(plots[i].plot.use_data_range)

----------------------------------------------------------------------------
(* Claim C7 *)

float_abs(x) == [sign |-> 1, m |-> x.m, e |-> x.e]

\* |x| <= |y| * 2^k, exactly
MagnitudeLeq(x, y, k) ==
    ~BigLess(BigShl(y.m, (y.e + k) - (IF x.e < y.e + k THEN x.e ELSE y.e + k)),
             BigShl(x.m, x.e - (IF x.e < y.e + k THEN x.e ELSE y.e + k)))

\* |x - target| <= 2^-50 * (|a| + |b|), exactly
WithinRounding(x, target, a, b) ==
    MagnitudeLeq(ExactSum(x, Negated(target)), ExactSum(float_abs(a), float_abs(b)), -50)

ScaleReturned == call.fn = "scale_data_to_range" /\ ret.exc = ""

\* C7 as the specification states it: scale_data_to_range maps every
\* element equal to in_high exactly to out_high and every element equal to
\* in_low exactly to out_low.
C7_EndpointsExact ==
    ScaleReturned =>
        \A i \in 1..Len(call.data) :
            /\ float_eq(call.data[i], call.in_high) => float_eq(ret.val[i], call.out_high)
            /\ float_eq(call.data[i], call.in_low) => float_eq(ret.val[i], call.out_low)

\* C7, amended: for in_low < in_high and out_low # out_high, with no
\* overflow or underflow in the intermediate results, scale_data_to_range
\* returns an array of the length of data, maps every element equal to
\* in_high exactly to out_high, and maps every element equal to in_low to
\* out_low up to the rounding of the float operations: to a float within
\* 2^-50 * (|out_high| + |out_low|) of out_low.
C7_EndpointsUpToRounding ==
    ScaleReturned =>
        /\ Len(ret.val) = Len(call.data)
        /\ \A i \in 1..Len(call.data) :
              /\ float_eq(call.data[i], call.in_high) =>
                    float_eq(ret.val[i], call.out_high)
              /\ float_eq(call.data[i], call.in_low) =>
                    WithinRounding(ret.val[i], call.out_low, call.out_high, call.out_low)

\* The data range and the scale range of the NDVI entry of the registry:
\* -1000.0 is mapped to -0.10000000000000009 = -7205759403792800 * 2^-56,
\* and -0.1 is -7205759403792794 * 2^-56.
C7_Witness ==
    /\ ScaleReturned
    /\ float_eq(call.in_high, float_literal(1, 10000, 1))
    /\ float_eq(call.in_low, float_literal(-1, 1000, 1))
    /\ float_eq(call.out_high, float_literal(1, 1, 1))
    /\ float_eq(call.out_low, float_literal(-1, 1, 10))
    /\ Len(call.data) = 1
    /\ float_eq(call.data[1], call.in_low)
    /\ float_eq(ret.val[1], [sign |-> -1, m |-> <<6560, 13107, 26214, 204>>, e |-> -56])
    /\ ~float_eq(ret.val[1], call.out_low)

\* The earliest and the latest day of the scenes of a generate_plot call.
EarliestDay ==
    CHOOSE d \in {DayNumber(s[1], s[2]) : s \in {call.scenes[i] : i \in 1..Len(call.scenes)}} :
        \A i \in 1..Len(call.scenes) : d <= DayNumber(call.scenes[i][1], call.scenes[i][2])

LatestDay ==
    CHOOSE d \in {DayNumber(s[1], s[2]) : s \in {call.scenes[i] : i \in 1..Len(call.scenes)}} :
        \A i \in 1..Len(call.scenes) : d >= DayNumber(call.scenes[i][1], call.scenes[i][2])

\* The passes of the padding loop for a range of dates.
PaddingPasses(lo, hi) == ((hi - lo) \div 365) + 1

\* The X-axis limits, or the overflow, for the range of dates lo..hi.
PaddedTo(lo, hi) ==
    IF \/ lo - 5 * PaddingPasses(lo, hi) < DayNumber(1, 1)
       \/ hi + 5 * PaddingPasses(lo, hi) > DayNumber(9999, 365)
    THEN ret.exc = "OverflowError"
    ELSE /\ ret.exc = ""
         /\ ret.val.xlim = <<lo - 5 * PaddingPasses(lo, hi), hi + 5 * PaddingPasses(lo, hi)>>

(* C8, as claimed: for every non-empty record set with earliest date dmin  *)
(* and latest date dmax, generate_plot sets the X-axis limits to           *)
(* dmin - 5k days and dmax + 5k days, k = floor((dmax - dmin).days/365)+1. *)
C8_LimitsFromRecords ==
    (call.fn = "generate_plot" /\ call.scenes # <<>> /\ ret.exc = "") =>
        ret.val.xlim =
            <<EarliestDay - 5 * PaddingPasses(EarliestDay, LatestDay),
              LatestDay + 5 * PaddingPasses(EarliestDay, LatestDay)>>

(* C8, amended: for every non-empty record set with earliest date dmin and *)
(* latest date dmax, generate_plot takes lo = min(dmin, 9998-12-31) and    *)
(* hi = max(dmax, 1900-01-01) and sets the X-axis limits to lo - 5k days   *)
(* and hi + 5k days, k = floor((hi - lo).days/365) + 1 >= 1; it raises     *)
(* OverflowError when a limit would leave 0001-01-01..9999-12-31.  So the  *)
(* limits are dmin - 5k and dmax + 5k when dmin <= 9998-12-31 and          *)
(* dmax >= 1900-01-01.                                                     *)
C8_LimitsFromClampedRange ==
    (call.fn = "generate_plot" /\ call.scenes # <<>> /\ ret.exc # "pending") =>
        LET lo == IF EarliestDay < DayNumber(9998, 365)
                  THEN EarliestDay ELSE DayNumber(9998, 365)
            hi == IF LatestDay > DayNumber(1900, 1)
                  THEN LatestDay ELSE DayNumber(1900, 1)
        IN  PaddingPasses(lo, hi) >= 1 /\ PaddedTo(lo, hi)

C8_Witness ==
    /\ call.fn = "generate_plot"
    /\ call.scenes = <<<<2016, 365>>, <<2015, 1>>>>
    /\ ret.exc = ""
    /\ ret.val.xlim = <<DayNumber(2015, 1) - 10, DayNumber(2016, 365) + 10>>

\* The five plots of a band type, in order: the type and the subjects.
ExpectedPlots ==
    << [plot_type |-> "Range", subjects |-> <<"M","i","n","i","m","u","m"," ","M","a","x","i","m","u","m"," ","M","e","a","n">>],
       [plot_type |-> "Value", subjects |-> <<"M","i","n","i","m","u","m">>],
       [plot_type |-> "Value", subjects |-> <<"M","a","x","i","m","u","m">>],
       [plot_type |-> "Value", subjects |-> <<"M","e","a","n">>],
       [plot_type |-> "Value", subjects |-> <<"S","t","d","D","e","v">>] >>

\* The plots of the current process_band_type call, in order.
PlotsOfCall == SelectSeq(plots, LAMBDA e : e.band = band)

\* The group title of the current call: the sensor name of the one pair
\* that matched files, or Multi Sensor.
ExpectedTitle ==
    IF Cardinality(MatchedPairs) = 1
    THEN arg_sensor_info[CHOOSE p \in MatchedPairs : TRUE][2] \o <<" ">> \o arg_band_type
    ELSE <<"M","u","l","t","i"," ","S","e","n","s","o","r"," ">> \o arg_band_type

(* C9: a process_band_type call with at least one pair that matched files  *)
(* makes exactly five plots, a Range plot of Minimum, Maximum and Mean and *)
(* then a Value plot each of Minimum, Maximum, Mean and StdDev, over all   *)
(* the matched files, titled "<sensor name> <band type>" when one pair     *)
(* matched files and "Multi Sensor <band type>" when more than one did.    *)
C9_FivePlots ==
    (pc = "returned" /\ MatchedPairs # {}) =>
        /\ Len(PlotsOfCall) = 5
        /\ \A k \in 1..Len(PlotsOfCall) :
              /\ PlotsOfCall[k].plot.plot_type = ExpectedPlots[k].plot_type
              /\ PlotsOfCall[k].plot.ylabel =
                     ExpectedTitle \o <<" ","-"," ">> \o ExpectedPlots[k].subjects
              /\ PlotsOfCall[k].plot.stat_files =
                     {StatFileUniverse[f].name :
                          f \in UNION {PairFiles(p) : p \in MatchedPairs}}

C9_Witness ==
    /\ pc = "returned"
    /\ \E i \in 1..Len(plots) : plots[i].plot.ylabel = <<"M","u","l","t","i"," ","S","e","n","s","o","r"," ","S","R"," ","B","l","u","e"," ","-"," ","M","i","n","i","m","u","m"," ","M","a","x","i","m","u","m"," ","M","e","a","n">>
    /\ \E i \in 1..Len(plots) : plots[i].plot.ylabel = <<"L","a","n","d","s","a","t"," ","5"," ","N","B","R","2"," ","-"," ","S","t","d","D","e","v">>

(* C10: in a process_band_type call every pair whose pattern matches files *)
(* gets exactly one CSV, of that pair's files only and named after         *)
(* "<sensor name> <band type>", also when several pairs match; a pair that *)
(* matches nothing gets none.                                              *)
C10_OneCsvPerPair ==
    InCall =>
        \A p \in 1..(pair - 1) :
            LET mine == {i \in 1..Len(csv_writes) :
                            csv_writes[i].band = band /\ csv_writes[i].pair = p}
            IN  IF PairFiles(p) = {} THEN mine = {}
                ELSE /\ Cardinality(mine) = 1
                     /\ \A i \in mine :
                           /\ {csv_writes[i].stat_files[j] :
                                   j \in 1..Len(csv_writes[i].stat_files)} = PairFiles(p)
                           /\ Len(csv_writes[i].data) = 1 + Cardinality(PairFiles(p))
                           /\ \A f \in PairFiles(p) :
                                 /\ csv_writes[i].name = StatFileTruth[f].csv
                                 /\ \E r \in 2..Len(csv_writes[i].data) :
                                       csv_writes[i].data[r] = ExpectedRow(f)

C10_Witness ==
    /\ pc = "returned"
    /\ Cardinality(MatchedPairs) >= 2
    /\ \E p \in 1..Len(arg_sensor_info) : PairFiles(p) = {}
    /\ Cardinality({i \in 1..Len(csv_writes) : csv_writes[i].band = band}) = 2

----------------------------------------------------------------------------
(* Claims C11 to C20 *)

\* The CSV files written by the current process_band_type call.
CsvOfCall == SelectSeq(csv_writes, LAMBDA e : e.band = band)

\* The files the current call deleted.
DeletedInCall == {f \in StatFiles : <<band, f>> \in unlinked}

(* C11: within process_band_type a file is deleted only once every pair    *)
(* that matched files has its CSV and all five plots are saved; when the   *)
(* call returns with at least one contributing sensor none of the consumed *)
(* files exists any more; when aggregation or plotting fails the call has  *)
(* deleted no file.                                                        *)
C11_DeleteAfterOutputs ==
    /\ (InCall /\ DeletedInCall # {}) =>
          /\ pc = "returned"
          /\ Len(CsvOfCall) = Cardinality(MatchedPairs)
          /\ Len(PlotsOfCall) = 5
    /\ (pc = "returned" /\ sensor_count > 0) =>
          /\ \A i \in 1..Len(multi_sensor_files) : multi_sensor_files[i] \notin fs
          /\ \A p \in MatchedPairs : PairFiles(p) \cap fs = {}
    /\ pc = "failed" => DeletedInCall = {}

C11_Witness ==
    /\ pc = "returned"
    /\ band = 1
    /\ sensor_count = 2
    /\ DeletedInCall = {1, 2, 3}
    /\ fs = {4}

\* s is the beginning of t
IsPrefix(s, t) == Len(s) <= Len(t) /\ SubSeq(t, 1, Len(s)) = s

(* C12: process_stats makes its process_band_type calls one after another  *)
(* in the order of the catalog, every output being of the current call;    *)
(* outputs already written are never taken back; and once a call has       *)
(* raised, nothing more happens in the run: no later band type is globbed, *)
(* aggregated, plotted or cleaned up and nothing is retried.               *)
C12_SequentialAndAbort ==
    [][/\ band' \in {band, band + 1}
       /\ IsPrefix(csv_writes, csv_writes')
       /\ IsPrefix(plots, plots')
       /\ \A i \in (Len(csv_writes) + 1)..Len(csv_writes') : csv_writes'[i].band = band
       /\ \A i \in (Len(plots) + 1)..Len(plots') : plots'[i].band = band
       /\ unlinked \subseteq unlinked'
       /\ \A e \in unlinked' \ unlinked : e[1] = band
       /\ pc = "failed" => UNCHANGED vars]_vars

\* The plot of the second band type fails on the mean of an LE7 file, after
\* the CSV and the plots of the first band type; the NBR2 file stays.
C12_Witness ==
    /\ pc = "failed"
    /\ error = "ValueError"
    /\ band = 2
    /\ 4 \in fs
    /\ \E i \in 1..Len(csv_writes) : csv_writes[i].band = 1
    /\ \E i \in 1..Len(csv_writes) : csv_writes[i].band = 2
    /\ Len(plots) = 5
    /\ \A i \in 1..Len(plots) : plots[i].band = 1

\* The files of the list that were made with the given fault.
FilesWith(fault) ==
    {i \in 1..Len(call.stat_files) : StatFileTruth[call.stat_files[i]].bad = fault}

StatsReturned == call.fn = "generate_sensor_stats" /\ ret # Pending

(* C13: when a stat file of the list lacks one of the keys minimum,         *)
(* maximum, mean and stddev, generate_sensor_stats fails with the lookup    *)
(* error KeyError and writes no CSV file.  It is violated when the list     *)
(* also holds a file with a blank line (the ValueError of C21, raised while *)
(* the files are read) or a filename whose day of year is past the end of   *)
(* the year (the TypeError of C17, when that record comes first).           *)
C13_LookupError ==
    (StatsReturned /\ FilesWith("key") # {}) => (ret.exc = "KeyError" /\ ret.val = <<>>)

LabelReturned == call.fn = "generate_plot_label" /\ ret # Pending

\* The keys of the registry.
RegistryKeys ==
    {<<"S","R">>, <<"T","O","A">>, <<"N","D","V","I">>, <<"E","V","I">>, <<"S","A","V","I">>, <<"M","S","A","V","I">>, <<"N","B","R">>, <<"N","B","R","2">>,
     <<"N","D","M","I">>, <<"L","S","T">>, <<"E","m","i","s">>}

\* key is the beginning of label, character by character
PrefixOf(key, label) ==
    Len(key) <= Len(label) /\ \A i \in 1..Len(key) : key[i] = label[i]

(* C14: generate_plot called with a band type that no key of the registry  *)
(* is a prefix of raises ValueError and saves no image; with a band type    *)
(* that a key is a prefix of, that lookup does not fail, and the range      *)
(* used is one of the keys that are a prefix of it.                         *)
C14_UnknownBandTypeFails ==
    LabelReturned =>
        IF \A key \in RegistryKeys : ~PrefixOf(key, call.band_type)
        THEN ret = Raise("ValueError")
        ELSE /\ ret.exc = ""
             /\ ret.val.use_data_range \in RegistryKeys
             /\ PrefixOf(ret.val.use_data_range, call.band_type)

C14_Witness ==
    /\ LabelReturned
    /\ call.band_type = <<"A","l","b","e","d","o">>
    /\ call.scenes # <<>>
    /\ ret = Raise("ValueError")

\* The plot names of the calls without their "- ", in lower case and with
\* "_" for every space, written out.
NormalizedName(plot_name) ==
    CASE plot_name = <<"L","a","n","d","s","a","t"," ","5"," ","S","R"," ","B","l","u","e">> -> <<"l","a","n","d","s","a","t","_","5","_","s","r","_","b","l","u","e">>
      [] plot_name = <<"M","u","l","t","i"," ","S","e","n","s","o","r"," ","N","B","R","2">> -> <<"m","u","l","t","i","_","s","e","n","s","o","r","_","n","b","r","2">>
      [] plot_name = <<"T","e","r","r","a"," ","L","S","T"," ","D","a","y">> -> <<"t","e","r","r","a","_","l","s","t","_","d","a","y">>
      [] plot_name = <<"P","r","e","-"," ","F","i","r","e"," ","N","B","R">> -> <<"p","r","e","f","i","r","e","_","n","b","r">>
      [] plot_name = <<"-"," ","D","r","a","f","t">> -> <<"d","r","a","f","t">>

\* The same of the subjects of the five calls of generate_plots.
NormalizedSubjects ==
    <<<<"m","i","n","i","m","u","m","_","m","a","x","i","m","u","m","_","m","e","a","n">>, <<"m","i","n","i","m","u","m">>, <<"m","a","x","i","m","u","m">>, <<"m","e","a","n">>, <<"s","t","d","d","e","v">>>>

\* The title of a call: the plot name, " - ", and the subjects.
TitleOfCall == call.plot_name \o <<" ","-"," ">> \o ExpectedPlots[call.idx].subjects

(* C15 as the specification states it: the image is named from the title   *)
(* by stripping a leading "- ", lowercasing, replacing every space with an *)
(* underscore and appending "_plot" (the image format's extension aside);  *)
(* no other character of the title is removed.                             *)
C15_LeadingDashStripped ==
    (LabelReturned /\ ret.exc = "") =>
        ret.val.file =
            Replace(Lower(IF StartsWith(TitleOfCall, <<"-"," ">>)
                          THEN SubSeq(TitleOfCall, 3, Len(TitleOfCall))
                          ELSE TitleOfCall),
                    <<" ">>, <<"_">>) \o <<"_","p","l","o","t",".","p","n","g">>

(* C15, amended: the image saved by generate_plot is named from the plot   *)
(* title "<plot name> - <subjects>" by removing every occurrence of "- "   *)
(* (the one before the subjects, which is never leading, and any in the    *)
(* plot name), lowercasing, replacing every space with an underscore and   *)
(* appending "_plot" and the extension ".png"; no other character of the   *)
(* title is removed.                                                       *)
C15_FileNameFromTitle ==
    (LabelReturned /\ ret.exc = "") =>
        /\ ret.val.ylabel = TitleOfCall
        /\ ret.val.file =
              NormalizedName(call.plot_name) \o <<"_">> \o NormalizedSubjects[call.idx]
              \o <<"_","p","l","o","t",".","p","n","g">>

C15_Witness ==
    /\ LabelReturned
    /\ call.plot_name = <<"M","u","l","t","i"," ","S","e","n","s","o","r"," ","N","B","R","2">>
    /\ call.idx = 1
    /\ ret.exc = ""
    /\ ret.val.ylabel = <<"M","u","l","t","i"," ","S","e","n","s","o","r"," ","N","B","R","2"," ","-"," ","M","i","n","i","m","u","m"," ","M","a","x","i","m","u","m"," ","M","e","a","n">>
    /\ ret.val.file = <<"m","u","l","t","i","_","s","e","n","s","o","r","_","n","b","r","2","_","m","i","n","i","m","u","m","_","m","a","x","i","m","u","m","_","m","e","a","n","_","p","l","o","t",".","p","n","g">>


\* The failures of the remote staging and of the checksum verification.
StagingCauses == {"fetch", "mkdir", "transfer", "local cksum", "remote cksum",
                  "checksum validation"}

\* process has been left because of a staging or checksum failure.
StagingFailed == proc.step \in {"raised", "returned"} /\ proc.cause \in StagingCauses

\* C16: whenever process fails because the remote staging fails (initial
\* fetch, remote mkdir, transfer of the results, a checksum command) or a
\* local and a remote checksum differ, an exception leaves process, the
\* work directory no longer exists when the keep option is not set, and a
\* work directory that was fetched is still there when keep is set.
C16_StagingFailureCleansUp ==
    StagingFailed =>
        /\ proc.step = "raised"
        /\ proc.raised # ""
        /\ ~proc.keep => proc.workdir = "absent"
        /\ (proc.keep /\ proc.cause # "fetch") => proc.workdir = "present"

\* get_ymds_from_filename has been called on a scene name and is finished.
FilenameDecoded ==
    call.fn = "get_ymds_from_filename" /\ call.sensor \in Sensors /\ ret.exc # "pending"

\* C17: get_ymds_from_filename is total: for every scene name of one of the
\* five sensors with digit year and day-of-year fields, day of year 000 and
\* days of year past the end of the year included, it returns a tuple
\* (year, month, day, sensor) with the month in 1..12 and raises nothing.
C17_DecodeTotal ==
    FilenameDecoded =>
        /\ ret.exc = ""
        /\ Len(ret.val) = 4
        /\ ret.val[2] \in 1..12

\* The rules of the decoder in their order: the tag, whether the name
\* must start with it, and the sensor.
DecodeRules == << <<<<"M","O","D">>, TRUE, "Terra">>, <<<<"M","Y","D">>, TRUE, "Aqua">>,
                  <<<<"L","T","4">>, FALSE, "LT4">>, <<<<"L","T","5">>, FALSE, "LT5">>,
                  <<<<"L","E","7">>, FALSE, "LE7">> >>

\* The positions of the name at which the tag stands.
Occurrences(tag, name) ==
    {i \in 1..Len(name) : i + Len(tag) - 1 <= Len(name)
                            /\ SubSeq(name, i, i + Len(tag) - 1) = tag}

\* The rules the name satisfies.
RulesOf(name) ==
    {r \in 1..Len(DecodeRules) :
        IF DecodeRules[r][2] THEN 1 \in Occurrences(DecodeRules[r][1], name)
        ELSE Occurrences(DecodeRules[r][1], name) # {}}

\* The earliest rule the name satisfies.
FirstRule(name) == CHOOSE r \in RulesOf(name) : \A q \in RulesOf(name) : r <= q

\* get_ymds_from_filename has been called on some name and is finished.
AnyNameDecoded == call.fn = "get_ymds_from_filename" /\ ret.exc # "pending"

\* C18: the sensor that get_ymds_from_filename returns is that of the first
\* rule the name satisfies in the order starts with MOD (Terra), starts
\* with MYD (Aqua), contains LT4, contains LT5, contains LE7, also when the
\* name satisfies several rules; a name that satisfies no rule gives
\* (0, 0, 0, 'unk') and raises nothing.
C18_FirstRuleWins ==
    AnyNameDecoded =>
        IF RulesOf(call.filename) = {}
        THEN ret = Ok(<<0, 0, 0, "unk">>)
        ELSE ret.exc = "" =>
                /\ Len(ret.val) = 4
                /\ ret.val[4] = DecodeRules[FirstRule(call.filename)][3]
                /\ ret.val[1] # 0

\* A name that starts with LE7 and contains LT5 is decoded as LT5.
C18_Witness ==
    /\ AnyNameDecoded
    /\ call.filename = <<"L","E","7","0","2","9","0","3","0","2","0","1","5","0","6","0","_","L","T","5","_","b","1",".","s","t","a","t","s">>
    /\ RulesOf(call.filename) = {4, 5}
    /\ ret = Ok(<<2015, 3, 1, "LT5">>)

\* The registry keys the label starts with.
KeysOf(label) == {key \in RegistryKeys : PrefixOf(key, label)}

\* C19: every band-type label that process_stats passes to
\* process_band_type resolves to exactly one registry entry: exactly one
\* key of BAND_TYPE_DATA_RANGES is a prefix of the label.
C19_OneKeyPerLabel == InCall => Cardinality(KeysOf(arg_band_type)) = 1

\* The text of a stat file has been read into its record.
ReadDone == call.fn = "stats_dict" /\ ret.exc # "pending"

\* The trimmed, lowercased line.
Trimmed(line) == Lower(Strip(line))

HasEquals(s) == \E i \in 1..Len(s) : s[i] = "="

\* The position of the first '=' of s.
FirstEquals(s) == CHOOSE i \in 1..Len(s) : s[i] = "=" /\ \A j \in 1..(i - 1) : s[j] # "="

TextBefore(s) == SubSeq(s, 1, FirstEquals(s) - 1)

TextAfter(s) == SubSeq(s, FirstEquals(s) + 1, Len(s))

\* C20: when every line of a stat file contains at least one '=', the
\* record built from read_stats is built without an exception and holds,
\* for every line, the text before the first '=' of the trimmed, lowercased
\* line as a key (with the text after the first '=' as its value, unless a
\* later line has the same key); a value that contains '=' is kept whole.
C20_SplitAtFirstEquals ==
    (ReadDone /\ \A i \in 1..Len(call.lines) : HasEquals(call.lines[i])) =>
        /\ ret.exc = ""
        /\ \A i \in 1..Len(call.lines) :
              LET line == Trimmed(call.lines[i])
              IN  /\ TextBefore(line) \in DOMAIN ret.val
                  /\ (\A j \in (i + 1)..Len(call.lines) :
                         TextBefore(Trimmed(call.lines[j])) # TextBefore(line))
                     => ret.val[TextBefore(line)] = TextAfter(line)

----------------------------------------------------------------------------
(* Claims C21 to C23 *)

\* C21: a stat file that holds the four required key=value lines and blank
\* lines besides (a trailing empty line) is read into the record of its four
\* lines: generate_sensor_stats on a list of such files and of well-formed
\* files raises nothing and writes the row of every file.
C21_BlankLinesSkipped ==
    (StatsReturned /\ FilesWith("read") # {}
                   /\ FilesWith("key") = {} /\ FilesWith("name") = {}) =>
        /\ ret.exc = ""
        /\ \A i \in FilesWith("read") :
              \E r \in 2..Len(ret.val.data) :
                  ret.val.data[r] = ExpectedRow(call.stat_files[i])

\* C22: during a run of process_stats at most one figure is open at any
\* time.  A figure is open only while its generate_plot call draws, or after
\* that call raised (the run is then over): once the image is saved the
\* figure is closed, so no figure is open between two plots, and a figure is
\* created only when none is open.
C22_OneFigureAtATime ==
    /\ [](/\ figures \in {0, 1}
          /\ figures = 1 => pc \in {"draw_plot", "failed"})
    /\ [][/\ figures' > figures => (figures = 0 /\ figures' = 1)
          /\ Len(plots') > Len(plots) => (figures = 1 /\ figures' = 0)]_vars

\* The figure of the second plot of a band type is open, after the first
\* plot was saved and its figure closed.
C22_Witness ==
    /\ pc = "draw_plot"
    /\ figures = 1
    /\ plot_idx = 2
    /\ Len(PlotsOfCall) = 1

\* The names of the files the run has written, in the order of the writes.
WrittenNames ==
    [i \in 1..Len(csv_writes) |-> csv_writes[i].name]
    \o [i \in 1..Len(plots) |-> plots[i].plot.file]

\* C23: within one run of process_stats, whatever stat files the work
\* directory holds, no output file name is written twice: the names of the
\* CSV files and of the plots written so far are pairwise distinct.
C23_NoNameWrittenTwice ==
    \A i, j \in 1..Len(WrittenNames) : WrittenNames[i] = WrittenNames[j] => i = j

\* A finished run that wrote the CSV files of three pairs and the plots of
\* two band types.
C23_Witness ==
    /\ pc = "done"
    /\ Len(csv_writes) = 3
    /\ Len(plots) = 10
    /\ {plots[i].band : i \in 1..Len(plots)} = {1, 28}
====
